---- MODULE Spec2Model ----
(***************************************************************************)
(* catalogueConnect backend: the route handlers of registerRoutes and the  *)
(* in-memory store MemStorage they call, as a state machine.               *)
(*                                                                         *)
(* Strings that are parsed, encoded or matched (emails, JSON text, order   *)
(* ids) are sequences of character codes.  Every handler is one action: a  *)
(* request runs to completion before the next one starts.                  *)
(***************************************************************************)
EXTENDS Integers, Sequences, FiniteSets, TLC

----------------------------------------------------------------------------
(* Bounds of the model *)

MaxUsers == 2
MaxProducts == 2
MaxCatalogues == 2
MaxRows == 3
MaxOrders == 2
MaxRequests == 2
MaxTicks == 1
MaxViews == 2
MaxIssued == 1
MaxListLen == 2
\* users, products, catalogues, orders and access requests created, all together
MaxEntities == 4
MaxInflight == 2

----------------------------------------------------------------------------
(* Characters *)

\* character codes
Ch ==
    [quote |-> 34, comma |-> 44, dash |-> 45, dot |-> 46, zero |-> 48, colon |-> 58,
     backslash |-> 92, underscore |-> 95, lbrace |-> 123, rbrace |-> 125]

\* "catalogueId", "email", "exp": the keys of the token payload
KeyCatalogueId == <<99, 97, 116, 97, 108, 111, 103, 117, 101, 73, 100>>
KeyEmail == <<101, 109, 97, 105, 108>>
KeyExp == <<101, 120, 112>>

IsDigit(c) == c >= 48 /\ c <= 57
IsUpper(c) == c >= 65 /\ c <= 90
IsLower(c) == c >= 97 /\ c <= 122

\* String.prototype.toUpperCase on one ASCII character
UpperChar(c) == IF IsLower(c) THEN c - 32 ELSE c

toUpperCase(s) == [i \in 1..Len(s) |-> UpperChar(s[i])]

----------------------------------------------------------------------------
(* JSON values: numbers, strings, undefined *)

Undefined == [t |-> "undef", n |-> 0, s |-> <<>>]
Num(n) == [t |-> "num", n |-> n, s |-> <<>>]
Str(s) == [t |-> "str", n |-> 0, s |-> s]

\* JavaScript truthiness: undefined, 0 and "" are falsy
Truthy(v) ==
    CASE v.t = "num" -> v.n # 0
      [] v.t = "str" -> v.s # <<>>
      [] OTHER -> FALSE

\* Number.prototype.toString / JSON.stringify of a non-negative integer
RECURSIVE Digits(_)
Digits(n) == IF n < 10 THEN <<Ch.zero + n>> ELSE Digits(n \div 10) \o <<Ch.zero + (n % 10)>>

\* JSON.stringify of a string: quotes and backslashes are escaped
RECURSIVE Escape(_)
Escape(s) ==
    IF s = <<>> THEN <<>>
    ELSE (IF Head(s) = Ch.quote \/ Head(s) = Ch.backslash
          THEN <<Ch.backslash, Head(s)>> ELSE <<Head(s)>>) \o Escape(Tail(s))

StringifyValue(v) ==
    IF v.t = "num" THEN Digits(v.n) ELSE <<Ch.quote>> \o Escape(v.s) \o <<Ch.quote>>

\* JSON.stringify of an object given as its members in insertion order;
\* members whose value is undefined are left out
RECURSIVE StringifyMembers(_, _)
StringifyMembers(members, first) ==
    IF members = <<>> THEN <<>>
    ELSE LET m == Head(members) IN
         IF m.value.t = "undef" THEN StringifyMembers(Tail(members), first)
         ELSE (IF first THEN <<>> ELSE <<Ch.comma>>)
              \o <<Ch.quote>> \o Escape(m.key) \o <<Ch.quote, Ch.colon>>
              \o StringifyValue(m.value)
              \o StringifyMembers(Tail(members), FALSE)

JSONStringify(members) == <<Ch.lbrace>> \o StringifyMembers(members, TRUE) \o <<Ch.rbrace>>

\* JSON.parse, for texts that are one flat object of string and number
\* members without white space, or the literal null; everything else is a
\* SyntaxError.  A parse result is [ok, obj, isNull] with obj a function from
\* keys to values and isNull telling that the text is null.
ParseError == [ok |-> FALSE, obj |-> <<>>, next |-> 0, isNull |-> FALSE]

\* "null"
NullText == <<110, 117, 108, 108>>

\* the string literal starting at the quote at position i
RECURSIVE ParseChars(_, _, _)
ParseChars(s, i, acc) ==
    IF i > Len(s) THEN [ok |-> FALSE, val |-> <<>>, next |-> 0]
    ELSE IF s[i] = Ch.quote THEN [ok |-> TRUE, val |-> acc, next |-> i + 1]
    ELSE IF s[i] = Ch.backslash
         THEN IF i + 1 <= Len(s) /\ (s[i + 1] = Ch.quote \/ s[i + 1] = Ch.backslash)
              THEN ParseChars(s, i + 2, Append(acc, s[i + 1]))
              ELSE [ok |-> FALSE, val |-> <<>>, next |-> 0]
    ELSE IF s[i] < 32 THEN [ok |-> FALSE, val |-> <<>>, next |-> 0]
    ELSE ParseChars(s, i + 1, Append(acc, s[i]))

ParseString(s, i) ==
    IF i <= Len(s) /\ s[i] = Ch.quote THEN ParseChars(s, i + 1, <<>>)
    ELSE [ok |-> FALSE, val |-> <<>>, next |-> 0]

RECURSIVE ParseDigits(_, _, _)
ParseDigits(s, i, acc) ==
    IF i <= Len(s) /\ IsDigit(s[i]) THEN ParseDigits(s, i + 1, acc * 10 + (s[i] - Ch.zero))
    ELSE [ok |-> TRUE, val |-> acc, next |-> i]

\* a JSON number: no leading zero unless it is 0 itself
ParseNumber(s, i) ==
    IF i > Len(s) \/ ~IsDigit(s[i]) THEN [ok |-> FALSE, val |-> 0, next |-> 0]
    ELSE IF s[i] = Ch.zero THEN [ok |-> TRUE, val |-> 0, next |-> i + 1]
    ELSE ParseDigits(s, i, 0)

\* a parsed string or number as a JSON value
StringValue(r) == [ok |-> r.ok, val |-> Str(r.val), next |-> r.next]
NumberValue(r) == [ok |-> r.ok, val |-> Num(r.val), next |-> r.next]

ParseValue(s, i) ==
    IF i <= Len(s) /\ s[i] = Ch.quote
    THEN StringValue(ParseString(s, i))
    ELSE NumberValue(ParseNumber(s, i))

\* obj with key bound to val (a repeated key keeps its last value)
Bind(obj, key, val) ==
    [k \in DOMAIN obj \cup {key} |-> IF k = key THEN val ELSE obj[k]]

\* the members from position i on, i being the start of a member: the key k,
\* a colon, the value v, then a comma and the next member or the closing brace
RECURSIVE ParseMembers(_, _, _), AfterKey(_, _, _), AfterValue(_, _, _, _)
ParseMembers(s, i, obj) == AfterKey(s, ParseString(s, i), obj)

AfterKey(s, k, obj) ==
    IF ~k.ok \/ k.next > Len(s) \/ s[k.next] # Ch.colon THEN ParseError
    ELSE AfterValue(s, k, ParseValue(s, k.next + 1), obj)

AfterValue(s, k, v, obj) ==
    IF ~v.ok \/ v.next > Len(s) THEN ParseError
    ELSE IF s[v.next] = Ch.comma THEN ParseMembers(s, v.next + 1, Bind(obj, k.val, v.val))
    ELSE IF s[v.next] = Ch.rbrace
         THEN [ok |-> TRUE, obj |-> Bind(obj, k.val, v.val), next |-> v.next + 1,
               isNull |-> FALSE]
    ELSE ParseError

\* the text must end with the object
WholeText(s, r) == IF r.ok /\ r.next = Len(s) + 1 THEN r ELSE ParseError

JSONParse(s) ==
    IF s = NullText THEN [ok |-> TRUE, obj |-> <<>>, next |-> 5, isNull |-> TRUE]
    ELSE IF Len(s) < 2 \/ s[1] # Ch.lbrace THEN ParseError
    ELSE IF s[2] = Ch.rbrace
         THEN (IF Len(s) = 2
               THEN [ok |-> TRUE, obj |-> <<>>, next |-> 3, isNull |-> FALSE]
               ELSE ParseError)
    ELSE WholeText(s, ParseMembers(s, 2, <<>>))

\* property access on a parsed object: undefined for a missing key
Field(obj, key) == IF key \in DOMAIN obj THEN obj[key] ELSE Undefined

----------------------------------------------------------------------------
(* base64: a token is a sequence of base64 digits 0..63 and the pad 64 *)

Pad == 63 + 1

\* Buffer.from(str).toString('base64'), str of ASCII characters: the bytes
\* three by three, each three as four digits, the last group padded
B64Encode(b) ==
    [k \in 1..(4 * ((Len(b) + 2) \div 3)) |->
        LET g == 3 * ((k - 1) \div 4)
            b1 == b[g + 1]
            b2 == IF g + 2 <= Len(b) THEN b[g + 2] ELSE 0
            b3 == IF g + 3 <= Len(b) THEN b[g + 3] ELSE 0
        IN  CASE (k - 1) % 4 = 0 -> b1 \div 4
              [] (k - 1) % 4 = 1 -> (b1 % 4) * 16 + b2 \div 16
              [] (k - 1) % 4 = 2 -> IF g + 2 > Len(b) THEN Pad ELSE (b2 % 16) * 4 + b3 \div 64
              [] OTHER -> IF g + 3 > Len(b) THEN Pad ELSE b3 % 64]

btoa(str) == B64Encode(str)

\* the digits of a token up to its first pad
B64Digits(t) ==
    LET pads == {i \in 1..Len(t) : t[i] = Pad} \cup {Len(t) + 1} IN
    SubSeq(t, 1, (CHOOSE i \in pads : \A j \in pads : i <= j) - 1)

\* Buffer.from(token, 'base64'): never throws; the digits four by four, each
\* four as three bytes; a trailing single digit is dropped
B64Bytes(d) ==
    [j \in 1..((Len(d) * 3) \div 4) |->
        LET g == 4 * ((j - 1) \div 3) IN
        CASE (j - 1) % 3 = 0 -> d[g + 1] * 4 + d[g + 2] \div 16
          [] (j - 1) % 3 = 1 -> (d[g + 2] % 16) * 16 + d[g + 3] \div 4
          [] OTHER -> (d[g + 3] % 4) * 64 + d[g + 4]]

atob(token) == B64Bytes(B64Digits(token))

\* the first parse when it succeeds, else the second
FirstOk(first, second) == IF first.ok THEN first ELSE second

\* Buffer.from(token, 'base64').toString() followed by JSON.parse, with the
\* fallback through atob, which is the same decoding
DecodeBase64Json(token) ==
    FirstOk(JSONParse(B64Bytes(B64Digits(token))), JSONParse(atob(token)))

----------------------------------------------------------------------------
(* Inputs of the requests *)

NoUser == 0
NaN == 0 - 1

\* 7 * 24 * 60 * 60 * 1000 milliseconds, the lifetime of an access token.  The
\* clock counts seconds: 30 days of milliseconds are more than 2^31
Week == 7 * 24 * 60 * 60

UserIds == 1..MaxUsers
ProductIds == 1..MaxProducts
CatalogueIds == 1..MaxCatalogues
RequestIds == 1..MaxRequests

ProductNames == {"tea", "rice"}
CatalogueNames == {"spring", "summer"}

\* "a" and "\"b": what a retailer types as email (any string is accepted)
Emails == {<<97>>, <<34, 98>>}

\* results of nanoid(10) behind "catalogue-"
Links == {"catalogue-V1StGXR8_Z", "catalogue-5hfT-aQ0pL"}

\* results of nanoid(6): characters of A-Za-z0-9_-
NanoidDraws == {<<97, 66, 51, 120, 89, 122>>, <<55, 95, 107, 45, 81, 48>>}

\* "ORD-"
OrdPrefix == <<79, 82, 68, 45>>

PaymentStatuses == {"pending", "paid"}

----------------------------------------------------------------------------
(* State *)

VARIABLES
    users,                      \* MemStorage.users: the ids of the registered users
    products,                   \* MemStorage.products: id -> Product
    catalogues,                 \* MemStorage.catalogues: id -> Catalogue
    catalogueProducts,          \* MemStorage.catalogueProducts: id -> CatalogueProduct
    orders,                     \* MemStorage.orders: id -> Order
    accessRequests,             \* MemStorage.accessRequests: id -> AccessRequest
    currentUserId,
    currentProductId,
    currentCatalogueId,
    currentCatalogueProductId,
    currentOrderId,
    currentAccessRequestId,
    now,                        \* Date.now(), in seconds since the server started
    issued,                     \* the access tokens check-access has handed out
    resp,                       \* the response to the last request
    inflight,                   \* the requests that are between two awaits
    dbCatalogueProducts         \* DatabaseStorage: the catalogue_products table

counters ==
    <<currentUserId, currentProductId, currentCatalogueId,
      currentCatalogueProductId, currentOrderId, currentAccessRequestId>>

store == <<users, products, catalogues, catalogueProducts, orders, accessRequests, counters>>

vars == <<store, now, issued, resp, inflight, dbCatalogueProducts>>

\* how many users, products, catalogues, orders and access requests were created
Created ==
    (currentUserId - 1) + (currentProductId - 1) + (currentCatalogueId - 1)
    + (currentOrderId - 1) + (currentAccessRequestId - 1)

NoBody == [kind |-> "none"]

\* the body of an error answer whose message text matters: { message }
Message(text) == [kind |-> "none", message |-> text]

Response(route, status, body) == [route |-> route, status |-> status, body |-> body]

\* new MemStorage()
Init ==
    /\ users = {}
    /\ products = <<>>
    /\ catalogues = <<>>
    /\ catalogueProducts = <<>>
    /\ orders = <<>>
    /\ accessRequests = <<>>
    /\ currentUserId = 1
    /\ currentProductId = 1
    /\ currentCatalogueId = 1
    /\ currentCatalogueProductId = 1
    /\ currentOrderId = 1
    /\ currentAccessRequestId = 1
    /\ now = 1
    /\ issued = {}
    /\ resp = Response("none", 0, NoBody)
    /\ inflight = <<>>
    /\ dbCatalogueProducts = [rows |-> <<>>, next |-> 1]

----------------------------------------------------------------------------
(* Objects: records; a request body is a record of the fields it carries *)

\* { ...a, ...b }
Merge(a, b) == [k \in DOMAIN a \cup DOMAIN b |-> IF k \in DOMAIN b THEN b[k] ELSE a[k]]

\* the object without the keys outside fields (zod strips unknown keys)
Pick(obj, fields) == [k \in DOMAIN obj \cap fields |-> obj[k]]

\* delete obj[key]
Without(obj, key) == [k \in DOMAIN obj \ {key} |-> obj[k]]

Has(obj, key) == key \in DOMAIN obj

\* a || b for an optional string field
OrElse(obj, key, default) == IF Has(obj, key) /\ obj[key] # "" THEN obj[key] ELSE default

----------------------------------------------------------------------------
(* @shared/schema: the insert schemas.  parse keeps the schema's fields and
   throws when a required field is missing or a field has the wrong type (a
   body with the marker field "invalid"); partial() requires no field. *)

ProductFields == {"userId", "name"}
CatalogueFields == {"userId", "name", "shareableLink"}
OrderFields == {"userId", "orderId", "catalogueId", "retailerEmail", "paymentStatus", "amount"}

SchemaAccepts(obj, required) == ~Has(obj, "invalid") /\ required \subseteq DOMAIN obj

insertProductSchema(obj) == Pick(obj, ProductFields)
insertCatalogueSchema(obj) == Pick(obj, CatalogueFields)
insertOrderSchema(obj) == Pick(obj, OrderFields)

----------------------------------------------------------------------------
(* Map: set, delete, and the values in insertion order (ids only grow) *)

MapSet(m, id, v) == [k \in DOMAIN m \cup {id} |-> IF k = id THEN v ELSE m[k]]

MapDelete(m, id) == [k \in DOMAIN m \ {id} |-> m[k]]

Min(S) == CHOOSE x \in S : \A y \in S : x <= y

\* Array.from(map.values()): the keys of m in insertion order
RECURSIVE KeysInOrder(_)
KeysInOrder(S) ==
    IF S = {} THEN <<>> ELSE <<Min(S)>> \o KeysInOrder(S \ {Min(S)})

\* Array.prototype.find over the map's values: the first of the keys that
\* match, 0 when none does
FindFirst(hits) == IF hits = {} THEN 0 ELSE Min(hits)

----------------------------------------------------------------------------
(* MemStorage *)

createUser ==
    /\ users' = users \cup {currentUserId}
    /\ currentUserId' = currentUserId + 1

getProducts(userId) == {id \in DOMAIN products : products[id].userId = userId}

\* the product createProduct stores
newProduct(insertProduct) == Merge(insertProduct, [id |-> currentProductId])

createProduct(insertProduct) ==
    /\ products' = MapSet(products, currentProductId, newProduct(insertProduct))
    /\ currentProductId' = currentProductId + 1

\* { ...product, ...updates }
updatedProduct(id, productUpdates) == Merge(products[id], productUpdates)

updateProduct(id, productUpdates) ==
    products' = MapSet(products, id, updatedProduct(id, productUpdates))

deleteProduct(id) == products' = MapDelete(products, id)

getCatalogues(userId) == {id \in DOMAIN catalogues : catalogues[id].userId = userId}

\* the id of the first catalogue with this link, 0 when there is none
getCatalogueByLink(shareableLink) ==
    FindFirst({id \in DOMAIN catalogues : catalogues[id].shareableLink = shareableLink})

\* the catalogue createCatalogue stores
newCatalogue(insertCatalogue) ==
    Merge(insertCatalogue, [id |-> currentCatalogueId, views |-> 0])

createCatalogue(insertCatalogue) ==
    /\ catalogues' = MapSet(catalogues, currentCatalogueId, newCatalogue(insertCatalogue))
    /\ currentCatalogueId' = currentCatalogueId + 1

\* { ...catalogue, ...updates }
updatedCatalogue(id, catalogueUpdates) == Merge(catalogues[id], catalogueUpdates)

updateCatalogue(id, catalogueUpdates) ==
    catalogues' = MapSet(catalogues, id, updatedCatalogue(id, catalogueUpdates))

deleteCatalogue(id) == catalogues' = MapDelete(catalogues, id)

\* the catalogues with the views of catalogue id one higher
\* A counter that counts a view twice: the view-counter property must tell
\* it from incrementCatalogueViews
incrementCatalogueViewsTwice(id) ==
    IF id \in DOMAIN catalogues
    THEN [catalogues EXCEPT ![id].views = catalogues[id].views + 2]
    ELSE catalogues

incrementCatalogueViews(id) ==
    IF id \in DOMAIN catalogues
    THEN [catalogues EXCEPT ![id].views = catalogues[id].views + 1]
    ELSE catalogues

\* The catalogue-product rows during a loop of a handler: cp is the rows and
\* the next row id.
addProductToCatalogue(cp, catalogueId, productId) ==
    [rows |-> MapSet(cp.rows, cp.next,
                     [id |-> cp.next, catalogueId |-> catalogueId, productId |-> productId]),
     next |-> cp.next + 1]

\* deletes the first row of the pair, if there is one
removeProductFromCatalogue(cp, catalogueId, productId) ==
    LET row == FindFirst({id \in DOMAIN cp.rows :
                             /\ cp.rows[id].catalogueId = catalogueId
                             /\ cp.rows[id].productId = productId})
    IN  IF row = 0 THEN cp ELSE [rows |-> MapDelete(cp.rows, row), next |-> cp.next]

\* the ids of the products of the catalogue's rows, in row order; a row whose
\* product is gone yields nothing (filter(Boolean))
RECURSIVE ProductsOfRows(_, _, _)
ProductsOfRows(rows, ids, catalogueId) ==
    IF ids = <<>> THEN <<>>
    ELSE LET r == rows[Head(ids)] IN
         (IF r.catalogueId = catalogueId /\ r.productId \in DOMAIN products
          THEN <<r.productId>> ELSE <<>>)
         \o ProductsOfRows(rows, Tail(ids), catalogueId)

getCatalogueProducts(rows, catalogueId) ==
    ProductsOfRows(rows, KeysInOrder(DOMAIN rows), catalogueId)

\* DatabaseStorage: insert into catalogue_products ... returning; cp is the
\* table and the next value of its serial id
DatabaseStorage_addProductToCatalogue(cp, catalogueId, productId) ==
    [rows |-> MapSet(cp.rows, cp.next,
                     [id |-> cp.next, catalogueId |-> catalogueId, productId |-> productId]),
     next |-> cp.next + 1]

\* DatabaseStorage: the rows the delete's where clause selects
RowsOfPair(rows, catalogueId, productId) ==
    {id \in DOMAIN rows : /\ rows[id].catalogueId = catalogueId
                          /\ rows[id].productId = productId}

\* DatabaseStorage: delete from catalogue_products where both ids match
DatabaseStorage_removeProductFromCatalogue(cp, catalogueId, productId) ==
    [rows |-> [id \in DOMAIN cp.rows \ RowsOfPair(cp.rows, catalogueId, productId) |->
                  cp.rows[id]],
     next |-> cp.next]

\* DatabaseStorage: result.rowCount ? result.rowCount > 0 : false
DatabaseStorage_removed(cp, catalogueId, productId) ==
    Cardinality(RowsOfPair(cp.rows, catalogueId, productId)) > 0

\* MemStorage: what removeProductFromCatalogue returns
MemStorage_removed(cp, catalogueId, productId) ==
    RowsOfPair(cp.rows, catalogueId, productId) # {}

\* DatabaseStorage: catalogue_products inner join products, one product per
\* row of the catalogue; given here in row order, the query asks for none
DatabaseStorage_getCatalogueProducts(rows, catalogueId) ==
    ProductsOfRows(rows, KeysInOrder(DOMAIN rows), catalogueId)

----------------------------------------------------------------------------
(* Request bodies *)

Empty == [k \in {} |-> 0]

\* a body zod rejects
InvalidBody == [invalid |-> TRUE]

\* an element of productIds: a JSON number or the string of its digits
ProductIdValues == {Num(i) : i \in ProductIds} \cup {Str(Digits(i)) : i \in ProductIds}

RECURSIVE SeqsUpTo(_, _)
SeqsUpTo(S, n) ==
    IF n = 0 THEN {<<>>}
    ELSE LET shorter == SeqsUpTo(S, n - 1) IN
         shorter \cup {Append(q, x) : q \in {r \in shorter : Len(r) = n - 1}, x \in S}

ProductIdLists == SeqsUpTo(ProductIdValues, MaxListLen)

ProductPostBodies ==
    {[name |-> "tea"]}
    \cup {[name |-> "tea", userId |-> v] : v \in UserIds}
    \cup {Empty, InvalidBody}

ProductPutBodies ==
    {[name |-> n] : n \in ProductNames} \cup {[userId |-> v] : v \in UserIds}
    \cup {Empty, InvalidBody}

\* lists: the values of productIds the bodies carry
CataloguePostBodies(lists) ==
    {[name |-> "spring"]}
    \cup {[name |-> "spring", productIds |-> l] : l \in lists}
    \cup {[name |-> "spring", userId |-> v, shareableLink |-> k] : v \in UserIds, k \in Links}
    \cup {Empty, InvalidBody}

CataloguePutBodies(lists) ==
    {[name |-> n] : n \in CatalogueNames}
    \cup {[shareableLink |-> k] : k \in Links}
    \cup {[userId |-> v] : v \in UserIds}
    \cup {[views |-> 7], Empty, InvalidBody}
    \cup {[productIds |-> l] : l \in lists}

\* parseInt of a route parameter or of an element of productIds
RECURSIVE LeadingDigits(_, _)
LeadingDigits(s, acc) ==
    IF s # <<>> /\ IsDigit(Head(s)) THEN LeadingDigits(Tail(s), acc * 10 + (Head(s) - Ch.zero))
    ELSE acc

parseInt(v) ==
    IF v.t = "num" THEN v.n
    ELSE IF v.t = "str" /\ v.s # <<>> /\ IsDigit(Head(v.s)) THEN LeadingDigits(v.s, 0)
    ELSE NaN

\* Number.prototype.toString
toString(n) == Str(Digits(n))

\* Array.prototype.includes
Includes(list, v) == \E i \in 1..Len(list) : list[i] = v

----------------------------------------------------------------------------
(* Registration (setupAuth): a new user; sessions are the parameter u of the
   distributor's requests, NoUser for a request without a session *)

Register ==
    /\ currentUserId <= MaxUsers /\ Created < MaxEntities
    /\ createUser
    /\ resp' = Response("register", 201, [kind |-> "user", id |-> currentUserId])
    /\ UNCHANGED <<products, catalogues, catalogueProducts, orders, accessRequests,
                   currentProductId, currentCatalogueId, currentCatalogueProductId,
                   currentOrderId, currentAccessRequestId, now, issued>>
    /\ UNCHANGED <<inflight, dbCatalogueProducts>>

Sessions == users \cup {NoUser}

----------------------------------------------------------------------------
(* Product routes *)

\* the checks every /api/products/:id handler starts with: the status it
\* answers, 0 when the request passes them
ProductGate(u, productId) ==
    IF u = NoUser THEN 401
    ELSE IF productId \notin DOMAIN products THEN 404
    ELSE IF products[productId].userId # u THEN 403
    ELSE 0

GetProducts(u) ==
    /\ resp' = IF u = NoUser THEN Response("GET /api/products", 401, NoBody)
               ELSE Response("GET /api/products", 200,
                             [kind |-> "products", ids |-> KeysInOrder(getProducts(u))])
    /\ UNCHANGED <<store, now, issued>>
    /\ UNCHANGED <<inflight, dbCatalogueProducts>>

GetProduct(u, productId) ==
    /\ resp' = IF ProductGate(u, productId) # 0
               THEN Response("GET /api/products/:id", ProductGate(u, productId), NoBody)
               ELSE Response("GET /api/products/:id", 200,
                             [kind |-> "product", product |-> products[productId]])
    /\ UNCHANGED <<store, now, issued>>
    /\ UNCHANGED <<inflight, dbCatalogueProducts>>

PostProduct(u, body) ==
    /\ currentProductId <= MaxProducts /\ Created < MaxEntities
    /\ LET data == Merge(body, [userId |-> u]) IN
       IF u = NoUser
       THEN /\ resp' = Response("POST /api/products", 401, NoBody)
            /\ UNCHANGED <<products, currentProductId>>
       ELSE IF ~SchemaAccepts(data, {"userId", "name"})
       THEN /\ resp' = Response("POST /api/products", 400, NoBody)
            /\ UNCHANGED <<products, currentProductId>>
       ELSE /\ createProduct(insertProductSchema(data))
            /\ resp' = Response("POST /api/products", 201,
                                [kind |-> "product",
                                 product |-> newProduct(insertProductSchema(data))])
    /\ UNCHANGED <<users, catalogues, catalogueProducts, orders, accessRequests,
                   currentUserId, currentCatalogueId, currentCatalogueProductId,
                   currentOrderId, currentAccessRequestId, now, issued>>
    /\ UNCHANGED <<inflight, dbCatalogueProducts>>

PutProduct(u, productId, body) ==
    /\ IF ProductGate(u, productId) # 0
       THEN /\ resp' = Response("PUT /api/products/:id", ProductGate(u, productId), NoBody)
            /\ UNCHANGED products
       ELSE IF ~SchemaAccepts(body, {})
       THEN /\ resp' = Response("PUT /api/products/:id", 400, NoBody)
            /\ UNCHANGED products
       ELSE /\ updateProduct(productId, insertProductSchema(body))
            /\ resp' = Response("PUT /api/products/:id", 200,
                                [kind |-> "product",
                                 product |-> updatedProduct(productId, insertProductSchema(body))])
    /\ UNCHANGED <<users, catalogues, catalogueProducts, orders, accessRequests,
                   counters, now, issued>>
    /\ UNCHANGED <<inflight, dbCatalogueProducts>>

DeleteProduct(u, productId) ==
    /\ IF ProductGate(u, productId) # 0
       THEN /\ resp' = Response("DELETE /api/products/:id", ProductGate(u, productId), NoBody)
            /\ UNCHANGED products
       ELSE /\ deleteProduct(productId)
            /\ resp' = Response("DELETE /api/products/:id", 204, NoBody)
    /\ UNCHANGED <<users, catalogues, catalogueProducts, orders, accessRequests,
                   counters, now, issued>>
    /\ UNCHANGED <<inflight, dbCatalogueProducts>>

----------------------------------------------------------------------------
(* Catalogue routes *)

\* A gate that loads the catalogue before it looks at the session: the
\* session property must tell it from CatalogueGate
CatalogueGateLoadsFirst(u, catalogueId) ==
    IF catalogueId \notin DOMAIN catalogues THEN 404
    ELSE IF u = NoUser THEN 401
    ELSE IF catalogues[catalogueId].userId # u THEN 403
    ELSE 0

CatalogueGate(u, catalogueId) ==
    IF u = NoUser THEN 401
    ELSE IF catalogueId \notin DOMAIN catalogues THEN 404
    ELSE IF catalogues[catalogueId].userId # u THEN 403
    ELSE 0

GetCatalogues(u) ==
    /\ resp' = IF u = NoUser THEN Response("GET /api/catalogues", 401, NoBody)
               ELSE Response("GET /api/catalogues", 200,
                             [kind |-> "catalogues", ids |-> KeysInOrder(getCatalogues(u))])
    /\ UNCHANGED <<store, now, issued>>
    /\ UNCHANGED <<inflight, dbCatalogueProducts>>

GetCatalogue(u, catalogueId) ==
    /\ resp' = IF CatalogueGate(u, catalogueId) # 0
               THEN Response("GET /api/catalogues/:id", CatalogueGate(u, catalogueId), NoBody)
               ELSE Response("GET /api/catalogues/:id", 200,
                             [kind |-> "catalogue", catalogue |-> catalogues[catalogueId],
                              products |-> getCatalogueProducts(catalogueProducts, catalogueId)])
    /\ UNCHANGED <<store, now, issued>>
    /\ UNCHANGED <<inflight, dbCatalogueProducts>>

\* POST /api/catalogues, the loop over req.body.productIds: a product is
\* attached when it exists and is the requester's
RECURSIVE AttachLoop(_, _, _, _)
AttachLoop(productIds, cp, catalogueId, u) ==
    IF productIds = <<>> THEN cp
    ELSE LET productId == parseInt(Head(productIds)) IN
         AttachLoop(Tail(productIds),
                    IF productId \in DOMAIN products /\ products[productId].userId = u
                    THEN addProductToCatalogue(cp, catalogueId, productId)
                    ELSE cp,
                    catalogueId, u)

PostCatalogue(u, body, link) ==
    /\ currentCatalogueId <= MaxCatalogues /\ Created < MaxEntities
    /\ LET data == Merge(body, [userId |-> u, shareableLink |-> link])
           attached == AttachLoop(body.productIds,
                                  [rows |-> catalogueProducts,
                                   next |-> currentCatalogueProductId],
                                  currentCatalogueId, u)
       IN
       IF u = NoUser
       THEN /\ resp' = Response("POST /api/catalogues", 401, NoBody)
            /\ UNCHANGED <<catalogues, currentCatalogueId, catalogueProducts,
                           currentCatalogueProductId>>
       ELSE IF ~SchemaAccepts(Without(data, "productIds"), {"userId", "name", "shareableLink"})
       THEN /\ resp' = Response("POST /api/catalogues", 400, NoBody)
            /\ UNCHANGED <<catalogues, currentCatalogueId, catalogueProducts,
                           currentCatalogueProductId>>
       ELSE /\ createCatalogue(insertCatalogueSchema(data))
            /\ IF Has(body, "productIds")
               THEN /\ attached.next <= MaxRows + 1
                    /\ catalogueProducts' = attached.rows
                    /\ currentCatalogueProductId' = attached.next
               ELSE UNCHANGED <<catalogueProducts, currentCatalogueProductId>>
            /\ resp' = Response("POST /api/catalogues", 201,
                                [kind |-> "catalogue",
                                 catalogue |-> newCatalogue(insertCatalogueSchema(data))])
    /\ UNCHANGED <<users, products, orders, accessRequests, currentUserId,
                   currentProductId, currentOrderId, currentAccessRequestId, now, issued>>
    /\ UNCHANGED <<inflight, dbCatalogueProducts>>

\* PUT /api/catalogues/:id, "Add new products": a listed product that is not
\* among the current ones is attached when it exists and is the requester's
RECURSIVE AddLoop(_, _, _, _, _)
AddLoop(productIds, currentProductIds, cp, catalogueId, u) ==
    IF productIds = <<>> THEN cp
    ELSE LET productId == parseInt(Head(productIds)) IN
         AddLoop(Tail(productIds), currentProductIds,
                 IF /\ ~Includes(currentProductIds, productId)
                    /\ productId \in DOMAIN products
                    /\ products[productId].userId = u
                 THEN addProductToCatalogue(cp, catalogueId, productId)
                 ELSE cp,
                 catalogueId, u)

\* "Remove products that are no longer in the list": a current product is
\* removed unless productIds includes the string of its id
RECURSIVE RemoveLoop(_, _, _, _)
RemoveLoop(currentProductIds, productIds, cp, catalogueId) ==
    IF currentProductIds = <<>> THEN cp
    ELSE RemoveLoop(Tail(currentProductIds), productIds,
                    IF ~Includes(productIds, toString(Head(currentProductIds)))
                    THEN removeProductFromCatalogue(cp, catalogueId, Head(currentProductIds))
                    ELSE cp,
                    catalogueId)

SyncProducts(productIds, catalogueId, u) ==
    LET cp == [rows |-> catalogueProducts, next |-> currentCatalogueProductId]
        currentProductIds == getCatalogueProducts(catalogueProducts, catalogueId)
    IN  RemoveLoop(currentProductIds, productIds,
                   AddLoop(productIds, currentProductIds, cp, catalogueId, u),
                   catalogueId)

PutCatalogue(u, catalogueId, body) ==
    /\ LET updateData == Without(body, "productIds")
           validatedData == Without(insertCatalogueSchema(updateData), "userId")
           synced == SyncProducts(body.productIds, catalogueId, u)
       IN
       IF CatalogueGate(u, catalogueId) # 0
       THEN /\ resp' = Response("PUT /api/catalogues/:id", CatalogueGate(u, catalogueId), NoBody)
            /\ UNCHANGED <<catalogues, catalogueProducts, currentCatalogueProductId>>
       ELSE IF ~SchemaAccepts(updateData, {})
       THEN /\ resp' = Response("PUT /api/catalogues/:id", 400, NoBody)
            /\ UNCHANGED <<catalogues, catalogueProducts, currentCatalogueProductId>>
       ELSE /\ updateCatalogue(catalogueId, validatedData)
            /\ IF Has(body, "productIds")
               THEN /\ synced.next <= MaxRows + 1
                    /\ catalogueProducts' = synced.rows
                    /\ currentCatalogueProductId' = synced.next
               ELSE UNCHANGED <<catalogueProducts, currentCatalogueProductId>>
            /\ resp' = Response("PUT /api/catalogues/:id", 200,
                                [kind |-> "catalogue",
                                 catalogue |-> updatedCatalogue(catalogueId, validatedData)])
    /\ UNCHANGED <<users, products, orders, accessRequests, currentUserId, currentProductId,
                   currentCatalogueId, currentOrderId, currentAccessRequestId, now, issued>>
    /\ UNCHANGED <<inflight, dbCatalogueProducts>>

\* A storage call that can fail.  st is the rows so far and whether a call has
\* thrown; fails tells that this call of addProductToCatalogue throws, and a
\* call that throws writes nothing.
AddOrThrow(st, fails, catalogueId, productId) ==
    [cp |-> IF fails THEN st.cp ELSE addProductToCatalogue(st.cp, catalogueId, productId),
     thrown |-> st.thrown \/ fails]

\* POST /api/catalogues, the loop from its element i on, when the call of
\* addProductToCatalogue made for element failAt throws: the try around the
\* call catches it and the loop goes on
RECURSIVE AttachLoopFailing(_, _, _, _, _, _)
AttachLoopFailing(productIds, i, failAt, st, catalogueId, u) ==
    IF i > Len(productIds) THEN st
    ELSE LET productId == parseInt(productIds[i]) IN
         AttachLoopFailing(productIds, i + 1, failAt,
                           IF productId \in DOMAIN products /\ products[productId].userId = u
                           THEN AddOrThrow(st, i = failAt, catalogueId, productId)
                           ELSE st,
                           catalogueId, u)

\* POST /api/catalogues with productIds, served while the add for element
\* failAt of productIds throws
PostCatalogueFailing(u, body, link, failAt) ==
    /\ currentCatalogueId <= MaxCatalogues /\ Created < MaxEntities
    /\ u # NoUser
    /\ Has(body, "productIds")
    /\ LET data == Merge(body, [userId |-> u, shareableLink |-> link])
           attached == AttachLoopFailing(body.productIds, 1, failAt,
                                         [cp |-> [rows |-> catalogueProducts,
                                                  next |-> currentCatalogueProductId],
                                          thrown |-> FALSE],
                                         currentCatalogueId, u)
       IN
       /\ SchemaAccepts(Without(data, "productIds"), {"userId", "name", "shareableLink"})
       /\ attached.thrown
       /\ attached.cp.next <= MaxRows + 1
       /\ createCatalogue(insertCatalogueSchema(data))
       /\ catalogueProducts' = attached.cp.rows
       /\ currentCatalogueProductId' = attached.cp.next
       /\ resp' = Response("POST /api/catalogues", 201,
                           [kind |-> "catalogue",
                            catalogue |-> newCatalogue(insertCatalogueSchema(data))])
    /\ UNCHANGED <<users, products, orders, accessRequests, currentUserId,
                   currentProductId, currentOrderId, currentAccessRequestId, now, issued>>
    /\ UNCHANGED <<inflight, dbCatalogueProducts>>

\* PUT /api/catalogues/:id, "Add new products" from element i on, when the
\* call of addProductToCatalogue made for element failAt throws: nothing
\* catches it inside the loop, which ends there
RECURSIVE AddLoopFailing(_, _, _, _, _, _, _)
AddLoopFailing(productIds, i, failAt, currentProductIds, st, catalogueId, u) ==
    IF i > Len(productIds) \/ st.thrown THEN st
    ELSE LET productId == parseInt(productIds[i]) IN
         AddLoopFailing(productIds, i + 1, failAt, currentProductIds,
                        IF /\ ~Includes(currentProductIds, productId)
                           /\ productId \in DOMAIN products
                           /\ products[productId].userId = u
                        THEN AddOrThrow(st, i = failAt, catalogueId, productId)
                        ELSE st,
                        catalogueId, u)

\* PUT /api/catalogues/:id with productIds, served while the add for element
\* failAt of productIds throws: the catalogue is updated, the adds before the
\* failing one are made, the error goes to next(error) and the removals are
\* not reached
PutCatalogueFailing(u, catalogueId, body, failAt) ==
    /\ CatalogueGate(u, catalogueId) = 0
    /\ Has(body, "productIds")
    /\ LET updateData == Without(body, "productIds")
           validatedData == Without(insertCatalogueSchema(updateData), "userId")
           added == AddLoopFailing(body.productIds, 1, failAt,
                                   getCatalogueProducts(catalogueProducts, catalogueId),
                                   [cp |-> [rows |-> catalogueProducts,
                                            next |-> currentCatalogueProductId],
                                    thrown |-> FALSE],
                                   catalogueId, u)
       IN
       /\ SchemaAccepts(updateData, {})
       /\ added.thrown
       /\ added.cp.next <= MaxRows + 1
       /\ updateCatalogue(catalogueId, validatedData)
       /\ catalogueProducts' = added.cp.rows
       /\ currentCatalogueProductId' = added.cp.next
       /\ resp' = Response("PUT /api/catalogues/:id", 500, NoBody)
    /\ UNCHANGED <<users, products, orders, accessRequests, currentUserId, currentProductId,
                   currentCatalogueId, currentOrderId, currentAccessRequestId, now, issued>>
    /\ UNCHANGED <<inflight, dbCatalogueProducts>>

----------------------------------------------------------------------------
(* PUT /api/catalogues/:id between its awaits.  A request in flight is a
   record: who asked, for which catalogue and productIds, the storage call it
   awaits (pc), what the calls returned, and where its loops are.  A storage
   call takes effect when it is made; what follows the await runs, without
   interruption, up to the next storage call. *)

InflightIds == 1..MaxInflight

\* the first element of productIds from i on that the add loop makes a call
\* for, 0 when there is none
NextAdd(req, i) ==
    FindFirst({k \in i..Len(req.productIds) :
                  ~Includes(req.currentProductIds, parseInt(req.productIds[k]))})

\* the first current product from j on that the remove loop removes, 0 when
\* there is none
NextRemove(req, j) ==
    FindFirst({k \in j..Len(req.currentProductIds) :
                  ~Includes(req.productIds, toString(req.currentProductIds[k]))})

\* the request answers
Answers(r, req, status, body) ==
    /\ inflight' = [inflight EXCEPT ![r] = [req EXCEPT !.pc = "done", !.status = status]]
    /\ resp' = Response("PUT /api/catalogues/:id", status, body)

\* the remove loop from current product j on: the next call of
\* removeProductFromCatalogue, or res.json(updatedCatalogue)
ContinueRemove(r, req, j) ==
    IF NextRemove(req, j) # 0
    THEN /\ catalogueProducts' =
               removeProductFromCatalogue(
                   [rows |-> catalogueProducts, next |-> currentCatalogueProductId],
                   req.catalogueId, req.currentProductIds[NextRemove(req, j)]).rows
         /\ inflight' = [inflight EXCEPT ![r] =
               [req EXCEPT !.pc = "removeProductFromCatalogue", !.j = NextRemove(req, j)]]
         /\ UNCHANGED <<currentCatalogueProductId, resp>>
    ELSE /\ Answers(r, req, 200, [kind |-> "catalogue", catalogue |-> req.updatedCatalogue])
         /\ UNCHANGED <<catalogueProducts, currentCatalogueProductId>>

\* the add loop from element i on: the next call of getProduct, or the remove
\* loop
ContinueAdd(r, req, i) ==
    IF NextAdd(req, i) # 0
    THEN /\ inflight' = [inflight EXCEPT ![r] =
               [req EXCEPT !.pc = "getProduct", !.i = NextAdd(req, i),
                           !.product = parseInt(req.productIds[NextAdd(req, i)]),
                           !.productOwner =
                               IF parseInt(req.productIds[NextAdd(req, i)]) \in DOMAIN products
                               THEN products[parseInt(req.productIds[NextAdd(req, i)])].userId
                               ELSE NoUser]]
         /\ UNCHANGED <<catalogueProducts, currentCatalogueProductId, resp>>
    ELSE ContinueRemove(r, req, 1)

\* the request arrives with a session and calls getCatalogue
PutArrives(r, u, catalogueId, productIds) ==
    /\ r \notin DOMAIN inflight
    /\ r = Cardinality(DOMAIN inflight) + 1
    /\ inflight' = MapSet(inflight, r,
          [u |-> u, catalogueId |-> catalogueId, productIds |-> productIds,
           pc |-> "getCatalogue",
           catalogueOwner |-> IF catalogueId \in DOMAIN catalogues
                              THEN catalogues[catalogueId].userId ELSE NoUser,
           updatedCatalogue |-> Empty, currentProductIds |-> <<>>,
           i |-> 0, j |-> 0, product |-> 0, productOwner |-> NoUser, status |-> 0])
    /\ UNCHANGED <<store, now, issued, resp, dbCatalogueProducts>>

\* after getCatalogue: 404, 403, or the call of updateCatalogue with the
\* body's fields other than productIds, of which there are none here
PutLoaded(r) ==
    /\ r \in DOMAIN inflight /\ inflight[r].pc = "getCatalogue"
    /\ LET req == inflight[r] IN
       IF req.catalogueOwner = NoUser
       THEN Answers(r, req, 404, NoBody) /\ UNCHANGED catalogues
       ELSE IF req.catalogueOwner # req.u
       THEN Answers(r, req, 403, NoBody) /\ UNCHANGED catalogues
       ELSE /\ inflight' = [inflight EXCEPT ![r] =
                  [req EXCEPT !.pc = "updateCatalogue",
                              !.updatedCatalogue =
                                  IF req.catalogueId \in DOMAIN catalogues
                                  THEN updatedCatalogue(req.catalogueId, Empty)
                                  ELSE Empty]]
            /\ IF req.catalogueId \in DOMAIN catalogues
               THEN updateCatalogue(req.catalogueId, Empty)
               ELSE UNCHANGED catalogues
            /\ UNCHANGED resp
    /\ UNCHANGED <<users, products, catalogueProducts, orders, accessRequests, counters,
                   now, issued, dbCatalogueProducts>>

\* after updateCatalogue: the call of getCatalogueProducts
PutUpdated(r) ==
    /\ r \in DOMAIN inflight /\ inflight[r].pc = "updateCatalogue"
    /\ inflight' = [inflight EXCEPT ![r] =
          [inflight[r] EXCEPT !.pc = "getCatalogueProducts",
                              !.currentProductIds =
                                  getCatalogueProducts(catalogueProducts, inflight[r].catalogueId)]]
    /\ UNCHANGED <<store, now, issued, resp, dbCatalogueProducts>>

\* after getCatalogueProducts: the loops start
PutListed(r) ==
    /\ r \in DOMAIN inflight /\ inflight[r].pc = "getCatalogueProducts"
    /\ ContinueAdd(r, inflight[r], 1)
    /\ UNCHANGED <<users, products, catalogues, orders, accessRequests, currentUserId,
                   currentProductId, currentCatalogueId, currentOrderId,
                   currentAccessRequestId, now, issued, dbCatalogueProducts>>

\* after getProduct: the call of addProductToCatalogue when the product is
\* the requester's, else the loop goes on
PutGotProduct(r) ==
    /\ r \in DOMAIN inflight /\ inflight[r].pc = "getProduct"
    /\ LET req == inflight[r]
           added == addProductToCatalogue(
                        [rows |-> catalogueProducts, next |-> currentCatalogueProductId],
                        req.catalogueId, req.product)
       IN
       IF req.productOwner = req.u
       THEN /\ added.next <= MaxRows + 1
            /\ catalogueProducts' = added.rows
            /\ currentCatalogueProductId' = added.next
            /\ inflight' = [inflight EXCEPT ![r] = [req EXCEPT !.pc = "addProductToCatalogue"]]
            /\ UNCHANGED resp
       ELSE ContinueAdd(r, req, req.i + 1)
    /\ UNCHANGED <<users, products, catalogues, orders, accessRequests, currentUserId,
                   currentProductId, currentCatalogueId, currentOrderId,
                   currentAccessRequestId, now, issued, dbCatalogueProducts>>

\* after addProductToCatalogue: the loop goes on
PutAdded(r) ==
    /\ r \in DOMAIN inflight /\ inflight[r].pc = "addProductToCatalogue"
    /\ ContinueAdd(r, inflight[r], inflight[r].i + 1)
    /\ UNCHANGED <<users, products, catalogues, orders, accessRequests, currentUserId,
                   currentProductId, currentCatalogueId, currentOrderId,
                   currentAccessRequestId, now, issued, dbCatalogueProducts>>

\* after removeProductFromCatalogue: the loop goes on
PutRemoved(r) ==
    /\ r \in DOMAIN inflight /\ inflight[r].pc = "removeProductFromCatalogue"
    /\ ContinueRemove(r, inflight[r], inflight[r].j + 1)
    /\ UNCHANGED <<users, products, catalogues, orders, accessRequests, currentUserId,
                   currentProductId, currentCatalogueId, currentOrderId,
                   currentAccessRequestId, now, issued, dbCatalogueProducts>>

----------------------------------------------------------------------------

(* The catalogue-product operations of IStorage, made on a MemStorage and on
   a DatabaseStorage that hold the same products.  The response records what
   each of the two returned. *)

StorageReturn(call, catalogueId, productId, mem, db) ==
    Response(call, 0, [kind |-> "storage", catalogueId |-> catalogueId,
                       productId |-> productId, mem |-> mem, db |-> db])

StorageAdd(catalogueId, productId) ==
    LET mem == addProductToCatalogue(
                   [rows |-> catalogueProducts, next |-> currentCatalogueProductId],
                   catalogueId, productId)
        db == DatabaseStorage_addProductToCatalogue(dbCatalogueProducts, catalogueId, productId)
    IN  /\ mem.next <= MaxRows + 1
        /\ catalogueProducts' = mem.rows
        /\ currentCatalogueProductId' = mem.next
        /\ dbCatalogueProducts' = db
        /\ resp' = StorageReturn("addProductToCatalogue", catalogueId, productId,
                                 mem.rows[currentCatalogueProductId],
                                 db.rows[dbCatalogueProducts.next])
        /\ UNCHANGED <<users, products, catalogues, orders, accessRequests, currentUserId,
                       currentProductId, currentCatalogueId, currentOrderId,
                       currentAccessRequestId, now, issued, inflight>>

StorageRemove(catalogueId, productId) ==
    /\ catalogueProducts' =
          removeProductFromCatalogue(
              [rows |-> catalogueProducts, next |-> currentCatalogueProductId],
              catalogueId, productId).rows
    /\ dbCatalogueProducts' =
          DatabaseStorage_removeProductFromCatalogue(dbCatalogueProducts, catalogueId, productId)
    /\ resp' = StorageReturn("removeProductFromCatalogue", catalogueId, productId,
          MemStorage_removed([rows |-> catalogueProducts, next |-> currentCatalogueProductId],
                             catalogueId, productId),
          DatabaseStorage_removed(dbCatalogueProducts, catalogueId, productId))
    /\ UNCHANGED <<users, products, catalogues, orders, accessRequests, counters,
                   now, issued, inflight>>

StorageGet(catalogueId) ==
    /\ resp' = StorageReturn("getCatalogueProducts", catalogueId, 0,
          getCatalogueProducts(catalogueProducts, catalogueId),
          DatabaseStorage_getCatalogueProducts(dbCatalogueProducts.rows, catalogueId))
    /\ UNCHANGED <<store, now, issued, inflight, dbCatalogueProducts>>

----------------------------------------------------------------------------

DeleteCatalogue(u, catalogueId) ==
    /\ IF CatalogueGate(u, catalogueId) # 0
       THEN /\ resp' = Response("DELETE /api/catalogues/:id", CatalogueGate(u, catalogueId), NoBody)
            /\ UNCHANGED catalogues
       ELSE /\ deleteCatalogue(catalogueId)
            /\ resp' = Response("DELETE /api/catalogues/:id", 204, NoBody)
    /\ UNCHANGED <<users, products, catalogueProducts, orders, accessRequests,
                   counters, now, issued>>
    /\ UNCHANGED <<inflight, dbCatalogueProducts>>

----------------------------------------------------------------------------
(* MemStorage: orders and access requests *)

getOrders(userId) == {id \in DOMAIN orders : orders[id].userId = userId}

\* the id of the first order with this orderId, 0 when there is none
getOrderByOrderId(orderId) ==
    FindFirst({id \in DOMAIN orders : orders[id].orderId = orderId})

\* `ORD-${nanoid(6).toUpperCase()}`
GenerateOrderId(draw) == OrdPrefix \o toUpperCase(draw)

\* the order createOrder stores; draw is what its own call of nanoid returns
\* (read only when insertOrder carries no orderId)
newOrder(insertOrder, draw) ==
    [id |-> currentOrderId,
     userId |-> insertOrder.userId,
     retailerEmail |-> insertOrder.retailerEmail,
     orderId |-> IF Has(insertOrder, "orderId") /\ insertOrder.orderId # <<>>
                 THEN insertOrder.orderId ELSE GenerateOrderId(draw),
     paymentStatus |-> OrElse(insertOrder, "paymentStatus", "pending"),
     amount |-> IF ~Has(insertOrder, "amount") THEN Undefined
                ELSE IF insertOrder.amount.t = "num" THEN toString(insertOrder.amount.n)
                ELSE insertOrder.amount,
     orderDate |-> now]

createOrder(insertOrder) ==
    /\ orders' \in {MapSet(orders, currentOrderId, newOrder(insertOrder, draw)) :
                      draw \in NanoidDraws}
    /\ currentOrderId' = currentOrderId + 1

\* the orders with the first order of this orderId set to paymentStatus
updateOrderPaymentStatus(orderId, paymentStatus) ==
    LET id == getOrderByOrderId(orderId) IN
    IF id = 0 THEN orders ELSE [orders EXCEPT ![id].paymentStatus = paymentStatus]

\* the ids of the orders of this retailer, in insertion order
getOrdersByEmail(email) ==
    KeysInOrder({id \in DOMAIN orders : Str(orders[id].retailerEmail) = email})

\* the request createAccessRequest stores
newAccessRequest(request) ==
    Merge(request, [id |-> currentAccessRequestId,
                    status |-> OrElse(request, "status", "pending")])

\* A store that files every request as approved: the request-access property
\* must tell it from createAccessRequest
createAccessRequestApproved(request) ==
    /\ accessRequests' = MapSet(accessRequests, currentAccessRequestId,
                                Merge(newAccessRequest(request), [status |-> "approved"]))
    /\ currentAccessRequestId' = currentAccessRequestId + 1

createAccessRequest(request) ==
    /\ accessRequests' = MapSet(accessRequests, currentAccessRequestId,
                                newAccessRequest(request))
    /\ currentAccessRequestId' = currentAccessRequestId + 1

\* the id of the first request of this catalogue and email, 0 when there is
\* none; email is a JSON value
getAccessRequestByEmail(catalogueId, email) ==
    FindFirst({id \in DOMAIN accessRequests :
                  /\ accessRequests[id].catalogueId = catalogueId
                  /\ Str(accessRequests[id].email) = email})

getAccessRequests(catalogueId) ==
    KeysInOrder({id \in DOMAIN accessRequests : accessRequests[id].catalogueId = catalogueId})

updateAccessRequest(id, status) ==
    accessRequests' = [accessRequests EXCEPT ![id].status = status]

----------------------------------------------------------------------------
(* Access requests *)

RequestAccessBodies ==
    {[name |-> "Ann", email |-> e, company |-> "Acme"] : e \in Emails}
    \cup {[email |-> e] : e \in Emails} \cup {Empty}

EmailBodies == {[email |-> e] : e \in Emails} \cup {Empty}

AccessStatusBodies == {[status |-> x] : x \in {"approved", "rejected", "pending"}} \cup {Empty}

RequestAccess(link, body) ==
    /\ currentAccessRequestId <= MaxRequests /\ Created < MaxEntities
    /\ LET catalogue == getCatalogueByLink(link)
           request == [catalogueId |-> catalogue, name |-> body.name, email |-> body.email,
                       company |-> body.company, status |-> "pending"]
       IN
       IF ~Has(body, "name") \/ ~Has(body, "email") \/ ~Has(body, "company")
       THEN /\ resp' = Response("POST /api/shared/:link/request-access", 400, NoBody)
            /\ UNCHANGED <<accessRequests, currentAccessRequestId>>
       ELSE IF catalogue = 0
       THEN /\ resp' = Response("POST /api/shared/:link/request-access", 404, NoBody)
            /\ UNCHANGED <<accessRequests, currentAccessRequestId>>
       ELSE /\ createAccessRequest(request)
            /\ resp' = Response("POST /api/shared/:link/request-access", 201,
                                [kind |-> "request", id |-> currentAccessRequestId,
                                 status |-> "pending"])
    /\ UNCHANGED <<users, products, catalogues, catalogueProducts, orders, currentUserId,
                   currentProductId, currentCatalogueId, currentCatalogueProductId,
                   currentOrderId, now, issued>>
    /\ UNCHANGED <<inflight, dbCatalogueProducts>>

\* the payload check-access signs nothing of: { catalogueId, email, exp }
TokenPayload(catalogueId, email, exp) ==
    <<[key |-> KeyCatalogueId, value |-> catalogueId],
      [key |-> KeyEmail, value |-> email],
      [key |-> KeyExp, value |-> exp]>>

\* btoa(JSON.stringify(tokenPayload))
MintToken(catalogueId, email) ==
    btoa(JSONStringify(TokenPayload(Num(catalogueId), Str(email), Num(now + Week))))

CheckAccess(link, body) ==
    /\ LET catalogue == getCatalogueByLink(link)
           accessRequest == getAccessRequestByEmail(catalogue, Str(body.email))
           granted == accessRequests[accessRequest].status = "approved"
           accessToken == MintToken(catalogue, body.email)
       IN
       IF ~Has(body, "email")
       THEN /\ resp' = Response("POST /api/shared/:link/check-access", 400, NoBody)
            /\ UNCHANGED issued
       ELSE IF catalogue = 0 \/ accessRequest = 0
       THEN /\ resp' = Response("POST /api/shared/:link/check-access", 404, NoBody)
            /\ UNCHANGED issued
       ELSE IF granted
       THEN /\ resp' = Response("POST /api/shared/:link/check-access", 200,
                                [kind |-> "access", granted |-> TRUE,
                                 accessToken |-> accessToken])
            /\ issued' = IF Cardinality(issued) < MaxIssued
                         THEN issued \cup {accessToken} ELSE issued
       ELSE /\ resp' = Response("POST /api/shared/:link/check-access", 200,
                                [kind |-> "access", granted |-> FALSE, accessToken |-> <<>>])
            /\ UNCHANGED issued
    /\ UNCHANGED <<store, now>>
    /\ UNCHANGED <<inflight, dbCatalogueProducts>>

GetAccessRequests(u, catalogueId) ==
    /\ resp' = IF CatalogueGate(u, catalogueId) # 0
               THEN Response("GET /api/catalogues/:id/access-requests",
                             CatalogueGate(u, catalogueId), NoBody)
               ELSE Response("GET /api/catalogues/:id/access-requests", 200,
                             [kind |-> "requests", ids |-> getAccessRequests(catalogueId)])
    /\ UNCHANGED <<store, now, issued>>
    /\ UNCHANGED <<inflight, dbCatalogueProducts>>

\* A handler that does not ask whose catalogue it is: the access-request
\* property must tell it from PutAccessRequest
PutAccessRequestAnyUser(u, requestId, body) ==
    /\ IF u = NoUser
       THEN /\ resp' = Response("PUT /api/access-requests/:id", 401, NoBody)
            /\ UNCHANGED accessRequests
       ELSE IF ~Has(body, "status") \/ body.status \notin {"approved", "rejected"}
       THEN /\ resp' = Response("PUT /api/access-requests/:id", 400, NoBody)
            /\ UNCHANGED accessRequests
       ELSE IF requestId \notin DOMAIN accessRequests
       THEN /\ resp' = Response("PUT /api/access-requests/:id", 404, NoBody)
            /\ UNCHANGED accessRequests
       ELSE /\ updateAccessRequest(requestId, body.status)
            /\ resp' = Response("PUT /api/access-requests/:id", 200,
                                [kind |-> "request", id |-> requestId, status |-> body.status])
    /\ UNCHANGED <<users, products, catalogues, catalogueProducts, orders, counters,
                   now, issued>>
    /\ UNCHANGED <<inflight, dbCatalogueProducts>>

PutAccessRequest(u, requestId, body) ==
    /\ LET catalogueId == accessRequests[requestId].catalogueId IN
       IF u = NoUser
       THEN /\ resp' = Response("PUT /api/access-requests/:id", 401, NoBody)
            /\ UNCHANGED accessRequests
       ELSE IF ~Has(body, "status") \/ body.status \notin {"approved", "rejected"}
       THEN /\ resp' = Response("PUT /api/access-requests/:id", 400, NoBody)
            /\ UNCHANGED accessRequests
       ELSE IF requestId \notin DOMAIN accessRequests \/ catalogueId \notin DOMAIN catalogues
       THEN /\ resp' = Response("PUT /api/access-requests/:id", 404, NoBody)
            /\ UNCHANGED accessRequests
       ELSE IF catalogues[catalogueId].userId # u
       THEN /\ resp' = Response("PUT /api/access-requests/:id", 403, NoBody)
            /\ UNCHANGED accessRequests
       ELSE /\ updateAccessRequest(requestId, body.status)
            /\ resp' = Response("PUT /api/access-requests/:id", 200,
                                [kind |-> "request", id |-> requestId, status |-> body.status])
    /\ UNCHANGED <<users, products, catalogues, catalogueProducts, orders, counters,
                   now, issued>>
    /\ UNCHANGED <<inflight, dbCatalogueProducts>>

----------------------------------------------------------------------------
(* Order routes *)

\* "X9": an orderId a client sends in the body of POST /api/orders
ClientOrderId == <<88, 57>>

OrderPostBodies ==
    {[userId |-> v, retailerEmail |-> e] : v \in UserIds, e \in Emails}
    \cup {[userId |-> 1, retailerEmail |-> <<97>>, paymentStatus |-> x] : x \in {"paid", ""}}
    \cup {[userId |-> 1, retailerEmail |-> <<97>>, orderId |-> ClientOrderId]}
    \cup {Empty, InvalidBody}

\* the orderId of a route's :orderId parameter
OrderIdParams == {GenerateOrderId(d) : d \in NanoidDraws} \cup {ClientOrderId}

PaymentStatusBodies == {[paymentStatus |-> x] : x \in PaymentStatuses \cup {""}} \cup {Empty}

\* POST /api/orders needs no session; draw is the result of the route's call
\* of nanoid(6)
PostOrder(body, draw) ==
    /\ currentOrderId <= MaxOrders /\ Created < MaxEntities
    /\ LET data == Merge(body, [orderId |-> GenerateOrderId(draw)]) IN
       IF ~SchemaAccepts(data, {"userId", "retailerEmail", "orderId"})
       THEN /\ resp' = Response("POST /api/orders", 400, NoBody)
            /\ UNCHANGED <<orders, currentOrderId>>
       ELSE /\ createOrder(insertOrderSchema(data))
            /\ resp' = Response("POST /api/orders", 201,
                                [kind |-> "order", order |-> orders'[currentOrderId]])
    /\ UNCHANGED <<users, products, catalogues, catalogueProducts, accessRequests,
                   currentUserId, currentProductId, currentCatalogueId,
                   currentCatalogueProductId, currentAccessRequestId, now, issued>>
    /\ UNCHANGED <<inflight, dbCatalogueProducts>>

\* An order gate that forgets the owner: the ownership property must tell it
\* from OrderGate
OrderGateAnyUser(u, orderId) ==
    IF u = NoUser THEN 401
    ELSE IF getOrderByOrderId(orderId) = 0 THEN 404
    ELSE 0

OrderGate(u, orderId) ==
    IF u = NoUser THEN 401
    ELSE IF getOrderByOrderId(orderId) = 0 THEN 404
    ELSE IF orders[getOrderByOrderId(orderId)].userId # u THEN 403
    ELSE 0

GetOrders(u) ==
    /\ resp' = IF u = NoUser THEN Response("GET /api/orders", 401, NoBody)
               ELSE Response("GET /api/orders", 200,
                             [kind |-> "orders", ids |-> KeysInOrder(getOrders(u))])
    /\ UNCHANGED <<store, now, issued>>
    /\ UNCHANGED <<inflight, dbCatalogueProducts>>

GetOrder(u, orderId) ==
    /\ resp' = IF OrderGate(u, orderId) # 0
               THEN Response("GET /api/orders/:orderId", OrderGate(u, orderId), NoBody)
               ELSE Response("GET /api/orders/:orderId", 200,
                             [kind |-> "order", order |-> orders[getOrderByOrderId(orderId)]])
    /\ UNCHANGED <<store, now, issued>>
    /\ UNCHANGED <<inflight, dbCatalogueProducts>>

PutOrderStatus(u, orderId, body) ==
    /\ IF u = NoUser
       THEN /\ resp' = Response("PUT /api/orders/:orderId/status", 401, NoBody)
            /\ UNCHANGED orders
       ELSE IF ~Has(body, "paymentStatus") \/ body.paymentStatus = ""
       THEN /\ resp' = Response("PUT /api/orders/:orderId/status", 400, NoBody)
            /\ UNCHANGED orders
       ELSE IF OrderGate(u, orderId) # 0
       THEN /\ resp' = Response("PUT /api/orders/:orderId/status", OrderGate(u, orderId), NoBody)
            /\ UNCHANGED orders
       ELSE /\ orders' = updateOrderPaymentStatus(orderId, body.paymentStatus)
            /\ resp' = Response("PUT /api/orders/:orderId/status", 200,
                                [kind |-> "order",
                                 order |-> updateOrderPaymentStatus(orderId, body.paymentStatus)
                                               [getOrderByOrderId(orderId)]])
    /\ UNCHANGED <<users, products, catalogues, catalogueProducts, accessRequests,
                   counters, now, issued>>
    /\ UNCHANGED <<inflight, dbCatalogueProducts>>

----------------------------------------------------------------------------
(* Dashboard *)

\* catalogues.reduce((sum, catalogue) => sum + (catalogue.views || 0), 0)
RECURSIVE TotalViews(_)
TotalViews(ids) ==
    IF ids = {} THEN 0 ELSE catalogues[Min(ids)].views + TotalViews(ids \ {Min(ids)})

\* A number of the amounts: hundredths, or NaN.  The amounts have at most two
\* digits after the point, so that the sums are exact.
NotANumber == [nan |-> TRUE, h |-> 0]
Hundredths(h) == [nan |-> FALSE, h |-> h]

\* how many digits s has from position i on
RECURSIVE DigitRun(_, _)
DigitRun(s, i) == IF i <= Len(s) /\ IsDigit(s[i]) THEN 1 + DigitRun(s, i + 1) ELSE 0

\* the digit of s at position i, 0 past the end of the run
DigitAt(s, i, run) == IF run > 0 THEN s[i] - Ch.zero ELSE 0

\* parseFloat of the text from position start on, whole digits long before
\* the point: the longest prefix that is a decimal number
ParseDecimal(s, start, whole) ==
    IF start + whole <= Len(s) /\ s[start + whole] = Ch.dot
    THEN IF whole = 0 /\ DigitRun(s, start + 1) = 0 THEN NotANumber
         ELSE Hundredths(LeadingDigits(SubSeq(s, start, start + whole - 1), 0) * 100
                         + DigitAt(s, start + whole + 1, DigitRun(s, start + whole + 1)) * 10
                         + DigitAt(s, start + whole + 2, DigitRun(s, start + whole + 1) - 1))
    ELSE IF whole = 0 THEN NotANumber
    ELSE Hundredths(LeadingDigits(SubSeq(s, start, start + whole - 1), 0) * 100)

Negated(x) == IF x.nan THEN x ELSE Hundredths(0 - x.h)

parseFloat(s) ==
    IF s # <<>> /\ s[1] = Ch.dash THEN Negated(ParseDecimal(s, 2, DigitRun(s, 2)))
    ELSE ParseDecimal(s, 1, DigitRun(s, 1))

\* sum + x
Plus(sum, x) == IF sum.nan \/ x.nan THEN NotANumber ELSE Hundredths(sum.h + x.h)

\* "NaN"
NaNText == <<78, 97, 78>>

\* Number.prototype.toFixed(2)
toFixed2(x) ==
    IF x.nan THEN NaNText
    ELSE IF x.h < 0
    THEN <<Ch.dash>> \o Digits((0 - x.h) \div 100)
         \o <<Ch.dot, Ch.zero + (((0 - x.h) % 100) \div 10), Ch.zero + ((0 - x.h) % 10)>>
    ELSE Digits(x.h \div 100) \o <<Ch.dot, Ch.zero + ((x.h % 100) \div 10), Ch.zero + (x.h % 10)>>

\* orders.filter(order => order.paymentStatus === "pending")
PendingOrders(u) == {id \in getOrders(u) : orders[id].paymentStatus = "pending"}

\* .reduce((sum, order) => sum + parseFloat(order.amount.toString()), 0) over
\* the orders in list
RECURSIVE SumAmounts(_)
SumAmounts(list) ==
    IF list = <<>> THEN Hundredths(0)
    ELSE Plus(SumAmounts(SubSeq(list, 1, Len(list) - 1)),
              parseFloat(orders[list[Len(list)]].amount.s))

\* 30 days: setDate(getDate() - 30), the server's clock being one without
\* daylight saving
ThirtyDays == 30 * 24 * 60 * 60

\* A filter that lets every order through: the stats property must tell it
\* from RecentOrders
RecentOrdersAll(u) == getOrders(u)

\* orders.filter(order => new Date(order.orderDate) >= thirtyDaysAgo)
RecentOrders(u) == {id \in getOrders(u) : orders[id].orderDate >= now - ThirtyDays}

\* order.amount.toString() throws on an order that has no amount
DashboardStats(u) ==
    /\ resp' = IF u = NoUser THEN Response("GET /api/dashboard/stats", 401, NoBody)
               ELSE IF \E id \in PendingOrders(u) : orders[id].amount.t = "undef"
               THEN Response("GET /api/dashboard/stats", 500, NoBody)
               ELSE Response("GET /api/dashboard/stats", 200,
                             [kind |-> "stats",
                              totalProducts |-> Cardinality(getProducts(u)),
                              newOrders |-> Cardinality(RecentOrders(u)),
                              pendingPayments |->
                                  toFixed2(SumAmounts(KeysInOrder(PendingOrders(u)))),
                              catalogueViews |-> TotalViews(getCatalogues(u))])
    /\ UNCHANGED <<store, now, issued>>
    /\ UNCHANGED <<inflight, dbCatalogueProducts>>

\* orders.sort((a, b) => new Date(b.orderDate) - new Date(a.orderDate)): the
\* newest first, orders of one date in the order of their creation
RECURSIVE NewestFirst(_)
NewestFirst(ids) ==
    IF ids = {} THEN <<>>
    ELSE LET first == Min({id \in ids : \A other \in ids :
                                           orders[id].orderDate >= orders[other].orderDate})
         IN  <<first>> \o NewestFirst(ids \ {first})

\* the user's orders, the newest first, at most 5 of them
DashboardRecentOrders(u) ==
    /\ resp' = IF u = NoUser THEN Response("GET /api/dashboard/recent-orders", 401, NoBody)
               ELSE Response("GET /api/dashboard/recent-orders", 200,
                             [kind |-> "orders",
                              ids |-> SubSeq(NewestFirst(getOrders(u)), 1,
                                             IF Cardinality(getOrders(u)) < 5
                                             THEN Cardinality(getOrders(u)) ELSE 5)])
    /\ UNCHANGED <<store, now, issued>>
    /\ UNCHANGED <<inflight, dbCatalogueProducts>>

----------------------------------------------------------------------------
(* Token-gated routes of a shared catalogue *)

\* The tokens a client can make up itself: the token is not signed.  exp is
\* 1 (past after any tick) or far ahead.
WellFormedPayloads ==
    {TokenPayload(Num(c), Str(<<97>>), Num(x)) : c \in CatalogueIds, x \in {1, 2000000000}}

\* a member is missing, or the email is another one
OddPayloads ==
    {TokenPayload(Num(c), Str(<<34, 98>>), Num(2000000000)) : c \in CatalogueIds}
    \cup {TokenPayload(Undefined, Str(e), Num(2000000000)) : e \in Emails}
    \cup {TokenPayload(Num(c), Undefined, Num(2000000000)) : c \in CatalogueIds}
    \cup {TokenPayload(Num(c), Str(e), Undefined) : c \in CatalogueIds, e \in Emails}

\* <<0>> is a token that decodes to no JSON
WellFormedTokens == {btoa(JSONStringify(p)) : p \in WellFormedPayloads} \cup {<<0>>}

OddTokens == {btoa(JSONStringify(p)) : p \in OddPayloads}

\* the token of the JSON text null
NullToken == btoa(NullText)

\* the tokens check-access can have minted by the time of the first ticks
MintedTokens ==
    {btoa(JSONStringify(TokenPayload(Num(c), Str(e), Num(t + Week)))) :
        c \in CatalogueIds, e \in Emails, t \in {1, 1 + Week, 2 + Week}}

\* the decoding of the tokens above, computed once
DecodeTable ==
    [token \in WellFormedTokens \cup OddTokens \cup MintedTokens \cup {NullToken} |->
        DecodeBase64Json(token)]

\* what a route reads from the token of the Authorization header
DecodeToken(token) ==
    IF token \in DOMAIN DecodeTable THEN DecodeTable[token] ELSE DecodeBase64Json(token)

\* the Authorization header: absent, or "Bearer " and a token
NoHeader == [bearer |-> FALSE, token |-> <<>>]

\* the headers of a client that holds the issued tokens and the forged ones
Headers(forged) ==
    {NoHeader} \cup {[bearer |-> TRUE, token |-> t] : t \in issued \cup forged}

\* A check that takes the token for expired at exp already: the expiry
\* property must tell it from Expired
ExpiredAtExp(tokenData) ==
    Field(tokenData, KeyExp).t = "num" /\ Field(tokenData, KeyExp).n <= now

\* tokenData.exp < Date.now()
Expired(tokenData) == Field(tokenData, KeyExp).t = "num" /\ Field(tokenData, KeyExp).n < now

\* The token checks of retailer-info and view: the status they answer, 0 when
\* the token passes them
TokenGate(header) ==
    LET decoded == DecodeToken(header.token) IN
    IF ~header.bearer THEN 401
    ELSE IF ~decoded.ok THEN 401
    ELSE IF \/ decoded.isNull
            \/ ~Truthy(Field(decoded.obj, KeyCatalogueId))
            \/ ~Truthy(Field(decoded.obj, KeyExp))
    THEN 401
    ELSE IF Expired(decoded.obj) THEN 401
    ELSE 0

\* the message that goes with the status of TokenGate
TokenGateMessage(header) ==
    LET decoded == DecodeToken(header.token) IN
    IF ~header.bearer THEN "Unauthorized"
    ELSE IF ~decoded.ok THEN "Invalid token format"
    ELSE IF \/ decoded.isNull
            \/ ~Truthy(Field(decoded.obj, KeyCatalogueId))
            \/ ~Truthy(Field(decoded.obj, KeyExp))
    THEN "Invalid token format"
    ELSE IF Expired(decoded.obj) THEN "Token expired"
    ELSE ""

\* The token checks of orders and payment-status: the token must decode
DecodeGate(header) ==
    IF ~header.bearer THEN 401
    ELSE IF ~DecodeToken(header.token).ok THEN 401
    ELSE 0

RetailerInfo(link, body, header) ==
    /\ LET tokenData == DecodeToken(header.token).obj
           catalogue == getCatalogueByLink(link)
           email == IF Has(body, "email") THEN Str(body.email) ELSE Undefined
           accessRequest == getAccessRequestByEmail(catalogue, email)
       IN
       resp' =
         IF TokenGate(header) # 0
         THEN Response("POST /api/shared/:link/retailer-info", TokenGate(header),
                       Message(TokenGateMessage(header)))
         ELSE IF catalogue = 0 \/ Num(catalogue) # Field(tokenData, KeyCatalogueId)
         THEN Response("POST /api/shared/:link/retailer-info", 404,
                       Message("Catalogue not found"))
         ELSE IF accessRequest = 0 \/ accessRequests[accessRequest].status # "approved"
         THEN Response("POST /api/shared/:link/retailer-info", 404,
                       Message("Access request not found or not approved"))
         ELSE Response("POST /api/shared/:link/retailer-info", 200,
                       [kind |-> "retailer",
                        name |-> accessRequests[accessRequest].name,
                        email |-> accessRequests[accessRequest].email,
                        company |-> accessRequests[accessRequest].company])
    /\ UNCHANGED <<store, now, issued>>
    /\ UNCHANGED <<inflight, dbCatalogueProducts>>

SharedOrders(link, header) ==
    /\ LET tokenData == DecodeToken(header.token).obj
           catalogue == getCatalogueByLink(link)
       IN
       resp' =
         IF DecodeGate(header) # 0
         THEN Response("GET /api/shared/:link/orders", DecodeGate(header), NoBody)
         ELSE IF catalogue = 0
         THEN Response("GET /api/shared/:link/orders", 404, NoBody)
         ELSE IF DecodeToken(header.token).isNull
         THEN Response("GET /api/shared/:link/orders", 500, NoBody)
         ELSE Response("GET /api/shared/:link/orders", 200,
                       [kind |-> "orders",
                        orders |-> [i \in 1..Len(getOrdersByEmail(Field(tokenData, KeyEmail)))
                                    |-> orders[getOrdersByEmail(Field(tokenData, KeyEmail))[i]]]])
    /\ UNCHANGED <<store, now, issued>>
    /\ UNCHANGED <<inflight, dbCatalogueProducts>>

\* what paymentStatus becomes when the body carries no status
UndefinedStatus == "undefined"

SharedStatusBodies == {[status |-> "paid"], Empty}

SharedPaymentStatus(link, orderId, body, header) ==
    /\ LET tokenData == DecodeToken(header.token).obj
           order == getOrderByOrderId(orderId)
           status == IF Has(body, "status") THEN body.status ELSE UndefinedStatus
       IN
       IF DecodeGate(header) # 0
       THEN /\ resp' = Response("PUT /api/shared/:link/orders/:orderId/payment-status",
                                DecodeGate(header), NoBody)
            /\ UNCHANGED orders
       ELSE IF order = 0
       THEN /\ resp' = Response("PUT /api/shared/:link/orders/:orderId/payment-status",
                                404, NoBody)
            /\ UNCHANGED orders
       ELSE IF DecodeToken(header.token).isNull
       THEN /\ resp' = Response("PUT /api/shared/:link/orders/:orderId/payment-status",
                                500, NoBody)
            /\ UNCHANGED orders
       ELSE IF Str(orders[order].retailerEmail) # Field(tokenData, KeyEmail)
       THEN /\ resp' = Response("PUT /api/shared/:link/orders/:orderId/payment-status",
                                403, NoBody)
            /\ UNCHANGED orders
       ELSE /\ orders' = updateOrderPaymentStatus(orderId, status)
            /\ resp' = Response("PUT /api/shared/:link/orders/:orderId/payment-status", 200,
                                [kind |-> "order",
                                 order |-> updateOrderPaymentStatus(orderId, status)[order]])
    /\ UNCHANGED <<users, products, catalogues, catalogueProducts, accessRequests,
                   counters, now, issued>>
    /\ UNCHANGED <<inflight, dbCatalogueProducts>>

View(link, header) ==
    /\ getCatalogueByLink(link) # 0 => catalogues[getCatalogueByLink(link)].views < MaxViews
    /\ LET tokenData == DecodeToken(header.token).obj
           catalogue == getCatalogueByLink(link)
       IN
       IF TokenGate(header) # 0
       THEN /\ resp' = Response("GET /api/shared/:link/view", TokenGate(header),
                                Message(IF header.bearer THEN TokenGateMessage(header)
                                        ELSE "Unauthorized - Missing or invalid authorization header"))
            /\ UNCHANGED catalogues
       ELSE IF catalogue = 0
       THEN /\ resp' = Response("GET /api/shared/:link/view", 404,
                                Message("Catalogue not found"))
            /\ UNCHANGED catalogues
       ELSE IF Num(catalogue) # Field(tokenData, KeyCatalogueId)
       THEN /\ resp' = Response("GET /api/shared/:link/view", 401,
                                Message("Invalid token for this catalogue"))
            /\ UNCHANGED catalogues
       ELSE /\ catalogues' = incrementCatalogueViews(catalogue)
            /\ resp' = IF catalogues[catalogue].userId \notin users
                       THEN Response("GET /api/shared/:link/view", 404,
                                     Message("Distributor not found"))
                       ELSE Response("GET /api/shared/:link/view", 200,
                                     [kind |-> "view",
                                      catalogue |-> incrementCatalogueViews(catalogue)[catalogue],
                                      products |-> getCatalogueProducts(catalogueProducts, catalogue),
                                      distributor |-> catalogues[catalogue].userId])
    /\ UNCHANGED <<users, products, catalogueProducts, orders, accessRequests,
                   counters, now, issued>>
    /\ UNCHANGED <<inflight, dbCatalogueProducts>>

----------------------------------------------------------------------------
(* GET /api/shared/:link/view between its awaits, on DatabaseStorage, whose
   catalogues table is the variable catalogues.  A request in flight is a
   record: the link and the token's catalogue, the storage call it awaits
   (pc), and what the calls returned. *)

\* DatabaseStorage.incrementCatalogueViews: catalogue.views || 0 of the row
\* that getCatalogue returned
DatabaseStorage_currentViews(id) == catalogues[id].views

\* DatabaseStorage.incrementCatalogueViews: update catalogues set views
\* where id
DatabaseStorage_setViews(id, views) ==
    IF id \in DOMAIN catalogues THEN [catalogues EXCEPT ![id].views = views] ELSE catalogues

\* the request answers
ViewAnswers(r, status, body) ==
    /\ inflight' = [inflight EXCEPT ![r] = [inflight[r] EXCEPT !.pc = "done", !.status = status]]
    /\ resp' = Response("GET /api/shared/:link/view", status, body)

\* the request arrives; its token passes the checks, and getCatalogueByLink
\* is called
ViewArrives(r, link, header) ==
    /\ r \notin DOMAIN inflight
    /\ r = Cardinality(DOMAIN inflight) + 1
    /\ TokenGate(header) = 0
    /\ inflight' = MapSet(inflight, r,
          [link |-> link,
           tokenCatalogueId |-> Field(DecodeToken(header.token).obj, KeyCatalogueId),
           pc |-> "getCatalogueByLink",
           catalogue |-> IF getCatalogueByLink(link) = 0 THEN Empty
                         ELSE catalogues[getCatalogueByLink(link)],
           found |-> FALSE, currentViews |-> 0, status |-> 0])
    /\ UNCHANGED <<store, now, issued, resp, dbCatalogueProducts>>

\* after getCatalogueByLink: 404, 401, or incrementCatalogueViews starts with
\* its call of getCatalogue
ViewLoaded(r) ==
    /\ r \in DOMAIN inflight /\ inflight[r].pc = "getCatalogueByLink"
    /\ LET req == inflight[r] IN
       IF req.catalogue = Empty
       THEN ViewAnswers(r, 404, Message("Catalogue not found"))
       ELSE IF Num(req.catalogue.id) # req.tokenCatalogueId
       THEN ViewAnswers(r, 401, Message("Invalid token for this catalogue"))
       ELSE /\ inflight' = [inflight EXCEPT ![r] =
                  [req EXCEPT !.pc = "getCatalogue",
                              !.found = req.catalogue.id \in DOMAIN catalogues,
                              !.currentViews =
                                  IF req.catalogue.id \in DOMAIN catalogues
                                  THEN DatabaseStorage_currentViews(req.catalogue.id)
                                  ELSE 0]]
            /\ UNCHANGED resp
    /\ UNCHANGED <<store, now, issued, dbCatalogueProducts>>

\* after getCatalogue: the update with currentViews + 1, when there was a
\* catalogue
ViewRead(r) ==
    /\ r \in DOMAIN inflight /\ inflight[r].pc = "getCatalogue"
    /\ catalogues' = IF inflight[r].found
                     THEN DatabaseStorage_setViews(inflight[r].catalogue.id,
                                                   inflight[r].currentViews + 1)
                     ELSE catalogues
    /\ inflight' = [inflight EXCEPT ![r] = [inflight[r] EXCEPT !.pc = "update"]]
    /\ UNCHANGED <<users, products, catalogueProducts, orders, accessRequests, counters,
                   now, issued, resp, dbCatalogueProducts>>

\* after the update: getCatalogueProducts and getUser, which write nothing,
\* and the answer with the catalogue as getCatalogueByLink returned it
ViewUpdated(r) ==
    /\ r \in DOMAIN inflight /\ inflight[r].pc = "update"
    /\ IF inflight[r].catalogue.userId \notin users
       THEN ViewAnswers(r, 404, Message("Distributor not found"))
       ELSE ViewAnswers(r, 200,
                [kind |-> "view",
                 catalogue |-> inflight[r].catalogue,
                 products |-> getCatalogueProducts(catalogueProducts, inflight[r].catalogue.id),
                 distributor |-> inflight[r].catalogue.userId])
    /\ UNCHANGED <<store, now, issued, dbCatalogueProducts>>

----------------------------------------------------------------------------
(* Time *)

\* Date.now() moves on by a week, or by a week and a second
Tick(d) ==
    /\ now < MaxTicks * Week
    /\ now' = now + d
    /\ resp' = Response("none", 0, NoBody)
    /\ UNCHANGED <<store, issued>>
    /\ UNCHANGED <<inflight, dbCatalogueProducts>>

----------------------------------------------------------------------------
(* The server *)

ProductRoutes(sessions) ==
    \E u \in sessions :
        \/ \E body \in ProductPostBodies : PostProduct(u, body)
        \/ \E productId \in ProductIds :
              \/ GetProduct(u, productId)
              \/ \E body \in ProductPutBodies : PutProduct(u, productId, body)
              \/ DeleteProduct(u, productId)

CatalogueRoutes(sessions, lists) ==
    \E u \in sessions :
        \/ \E body \in CataloguePostBodies(lists), link \in Links : PostCatalogue(u, body, link)
        \/ \E catalogueId \in CatalogueIds :
              \/ GetCatalogue(u, catalogueId)
              \/ \E body \in CataloguePutBodies(lists) : PutCatalogue(u, catalogueId, body)
              \/ DeleteCatalogue(u, catalogueId)

OrderRoutes(sessions) ==
    \/ \E body \in OrderPostBodies, draw \in NanoidDraws : PostOrder(body, draw)
    \/ \E u \in sessions, orderId \in OrderIdParams :
          \/ GetOrder(u, orderId)
          \/ \E body \in PaymentStatusBodies : PutOrderStatus(u, orderId, body)

AccessRoutes(sessions) ==
    \/ \E link \in Links, body \in RequestAccessBodies : RequestAccess(link, body)
    \/ \E link \in Links, body \in EmailBodies : CheckAccess(link, body)
    \/ \E u \in sessions, requestId \in RequestIds, body \in AccessStatusBodies :
          PutAccessRequest(u, requestId, body)

\* the routes that list a distributor's entities, and the dashboard
ListRoutes(sessions) ==
    \E u \in sessions :
        \/ GetProducts(u)
        \/ GetCatalogues(u)
        \/ \E catalogueId \in CatalogueIds : GetAccessRequests(u, catalogueId)
        \/ GetOrders(u)
        \/ DashboardStats(u)
        \/ DashboardRecentOrders(u)

SharedRoutes(headers) ==
    \E link \in Links, header \in headers :
        \/ \E body \in EmailBodies : RetailerInfo(link, body, header)
        \/ SharedOrders(link, header)
        \/ \E orderId \in OrderIdParams, body \in SharedStatusBodies :
              SharedPaymentStatus(link, orderId, body, header)
        \/ View(link, header)

Next ==
    \/ Register
    \/ ProductRoutes(Sessions)
    \/ CatalogueRoutes(Sessions, ProductIdLists)
    \/ OrderRoutes(Sessions)
    \/ AccessRoutes(Sessions)
    \/ ListRoutes(Sessions)
    \/ SharedRoutes(Headers(WellFormedTokens \cup OddTokens \cup {NullToken}))
    \/ \E d \in {Week, Week + 1} : Tick(d)

Spec == Init /\ [][Next]_vars

\* the productIds lists of the ownership runs: none, a number, a string
OwnershipLists == {<<>>, <<Num(1)>>, <<Str(Digits(2))>>}

\* The routes on products, catalogues and orders, each request with a session
OwnershipNext ==
    \/ Register
    \/ ProductRoutes(users)
    \/ CatalogueRoutes(users, OwnershipLists)
    \/ OrderRoutes(users)

OwnershipSpec == Init /\ [][OwnershipNext]_vars

\* The life of an access request: a distributor's catalogues, the requests of
\* retailers, the distributor's decisions
AccessNext ==
    \/ Register
    \/ CatalogueRoutes(users, {})
    \/ AccessRoutes(users)

AccessSpec == Init /\ [][AccessNext]_vars

\* The sync of a catalogue's products
SyncNext ==
    \/ Register
    \/ ProductRoutes(users)
    \/ CatalogueRoutes(users, ProductIdLists)

SyncSpec == Init /\ [][SyncNext]_vars

\* the tokens of the shared runs: the well-formed ones and the one of null
SharedTokens == WellFormedTokens \cup {NullToken}

\* The shared catalogue: what a retailer can do with a token it has made up.
\* The token is not signed: a forged token is byte for byte one that
\* check-access mints.
SharedNext ==
    \/ Register
    \/ \E u \in users, body \in CataloguePostBodies({}), link \in Links :
          PostCatalogue(u, body, link)
    \/ \E e \in Emails, draw \in NanoidDraws :
          PostOrder([userId |-> 1, retailerEmail |-> e], draw)
    \/ SharedRoutes(Headers(SharedTokens))
    \/ \E d \in {Week, Week + 1} : Tick(d)

SharedSpec == Init /\ [][SharedNext]_vars

\* The view counter: the routes that write catalogues, and the view route
ViewNext ==
    \/ Register
    \/ CatalogueRoutes(users, {})
    \/ AccessRoutes(users)
    \/ \E link \in Links, header \in Headers(WellFormedTokens) : View(link, header)
    \/ \E d \in {Week, Week + 1} : Tick(d)

ViewSpec == Init /\ [][ViewNext]_vars

\* The life of a minted token: the retailer presents only what check-access
\* has handed out
ExpiryNext ==
    \/ Register
    \/ \E u \in users :
          \/ \E body \in CataloguePostBodies({}), link \in Links : PostCatalogue(u, body, link)
          \/ \E catalogueId \in CatalogueIds :
                \/ \E link \in Links : PutCatalogue(u, catalogueId, [shareableLink |-> link])
                \/ DeleteCatalogue(u, catalogueId)
    \/ AccessRoutes(users)
    \/ \E link \in Links, header \in Headers({}) : View(link, header)
    \/ \E d \in {Week, Week + 1} : Tick(d)

ExpirySpec == Init /\ [][ExpiryNext]_vars

\* The distributor's routes without a session: distributors create and
\* delete their products and catalogues, and every route is asked without a
\* session
SessionNext ==
    \/ Register
    \/ \E u \in users :
          \/ PostProduct(u, [name |-> "tea"])
          \/ \E link \in Links : PostCatalogue(u, [name |-> "spring"], link)
          \/ \E productId \in ProductIds : DeleteProduct(u, productId)
          \/ \E catalogueId \in CatalogueIds : DeleteCatalogue(u, catalogueId)
    \/ \E draw \in NanoidDraws : PostOrder([userId |-> 1, retailerEmail |-> <<97>>], draw)
    \/ \E link \in Links :
          RequestAccess(link, [name |-> "Ann", email |-> <<97>>, company |-> "Acme"])
    \/ ProductRoutes({NoUser})
    \/ CatalogueRoutes({NoUser}, {})
    \/ \E orderId \in OrderIdParams :
          \/ GetOrder(NoUser, orderId)
          \/ \E body \in PaymentStatusBodies : PutOrderStatus(NoUser, orderId, body)
    \/ \E requestId \in RequestIds, body \in AccessStatusBodies :
          PutAccessRequest(NoUser, requestId, body)
    \/ ListRoutes(Sessions)

SessionSpec == Init /\ [][SessionNext]_vars

\* the productIds lists of the runs with a failing storage call: ids as
\* strings, which the sync keeps
FailureLists == SeqsUpTo({Str(Digits(i)) : i \in ProductIds}, MaxListLen)

\* Catalogues whose products are attached and synced while a storage call can
\* fail
FailureNext ==
    \/ Register
    \/ \E u \in users :
          \/ PostProduct(u, [name |-> "tea"])
          \/ \E l \in FailureLists, link \in Links :
                \/ PostCatalogue(u, [name |-> "spring", productIds |-> l], link)
                \/ \E failAt \in 1..MaxListLen :
                      PostCatalogueFailing(u, [name |-> "spring", productIds |-> l],
                                           link, failAt)
          \/ \E l \in FailureLists, catalogueId \in CatalogueIds :
                \/ PutCatalogue(u, catalogueId, [productIds |-> l])
                \/ \E failAt \in 1..MaxListLen :
                      PutCatalogueFailing(u, catalogueId, [productIds |-> l], failAt)

FailureSpec == Init /\ [][FailureNext]_vars

\* the productIds lists of the concurrent runs: ids as strings, none twice
ConcurrentLists ==
    {l \in FailureLists : \A a \in 1..Len(l), b \in 1..Len(l) : a # b => l[a] # l[b]}

\* PUT /api/catalogues/:id requests that run side by side, on products and
\* catalogues that were there before the first of them arrived
ConcurrentNext ==
    \/ inflight = <<>> /\ Register
    \/ inflight = <<>> /\ \E u \in users : PostProduct(u, [name |-> "tea"])
    \/ inflight = <<>> /\ \E u \in users, link \in Links : PostCatalogue(u, [name |-> "spring"], link)
    \/ \E r \in InflightIds :
          \/ \E u \in users, catalogueId \in CatalogueIds, l \in ConcurrentLists :
                PutArrives(r, u, catalogueId, l)
          \/ PutLoaded(r)
          \/ PutUpdated(r)
          \/ PutListed(r)
          \/ PutGotProduct(r)
          \/ PutAdded(r)
          \/ PutRemoved(r)

ConcurrentSpec == Init /\ [][ConcurrentNext]_vars

\* the catalogue-product operations on both storages, over the products of
\* distributors
StorageNext ==
    \/ Register
    \/ \E u \in users : PostProduct(u, [name |-> "tea"])
    \/ \E u \in users, id \in ProductIds : DeleteProduct(u, id)
    \/ \E catalogueId \in CatalogueIds, productId \in ProductIds :
          \/ StorageAdd(catalogueId, productId)
          \/ StorageRemove(catalogueId, productId)
    \/ \E catalogueId \in CatalogueIds : StorageGet(catalogueId)

StorageSpec == Init /\ [][StorageNext]_vars

\* "10.50", "0.05"
TenFifty == <<49, 48, 46, 53, 48>>
FiveHundredths == <<48, 46, 48, 53>>

\* the orders of the dashboard runs: for either user, pending or paid, with
\* an amount as a decimal string or as a number
DashboardOrderBodies ==
    {[userId |-> v, retailerEmail |-> <<97>>, amount |-> a] :
        v \in UserIds, a \in {Str(TenFifty), Str(FiveHundredths), Num(3)}}
    \cup {[userId |-> 1, retailerEmail |-> <<97>>, amount |-> Str(TenFifty),
           paymentStatus |-> "paid"]}

\* The dashboard: distributors with products, catalogues that are viewed,
\* orders that are placed and paid, and a clock that passes the 30 days
DashboardNext ==
    \/ Register
    \/ \E u \in users :
          \/ PostProduct(u, [name |-> "tea"])
          \/ \E link \in Links : PostCatalogue(u, [name |-> "spring"], link)
          \/ \E orderId \in OrderIdParams, status \in {"paid", "pending"} :
                PutOrderStatus(u, orderId, [paymentStatus |-> status])
          \/ \E requestId \in RequestIds :
                PutAccessRequest(u, requestId, [status |-> "approved"])
          \/ DashboardStats(u)
    \/ \E body \in DashboardOrderBodies, draw \in NanoidDraws : PostOrder(body, draw)
    \/ \E link \in Links :
          \/ RequestAccess(link, [name |-> "Ann", email |-> <<97>>, company |-> "Acme"])
          \/ CheckAccess(link, [email |-> <<97>>])
          \/ \E header \in Headers({}) : View(link, header)
    \/ now <= 2 /\ \E d \in {1, ThirtyDays} : Tick(d)

DashboardSpec == Init /\ [][DashboardNext]_vars

\* tokens for the catalogues, good for a long time
ViewTokens ==
    {btoa(JSONStringify(TokenPayload(Num(c), Str(<<97>>), Num(2000000000)))) :
        c \in CatalogueIds}

\* GET /api/shared/:link/view requests that run side by side, on catalogues
\* that were there before the first of them arrived
ConcurrentViewsNext ==
    \/ inflight = <<>> /\ Register
    \/ inflight = <<>> /\ \E u \in users, link \in Links : PostCatalogue(u, [name |-> "spring"], link)
    \/ \E r \in InflightIds :
          \/ \E link \in Links, token \in ViewTokens :
                ViewArrives(r, link, [bearer |-> TRUE, token |-> token])
          \/ ViewLoaded(r)
          \/ ViewRead(r)
          \/ ViewUpdated(r)

ConcurrentViewsSpec == Init /\ [][ConcurrentViewsNext]_vars

\* the links the catalogues carry
LinksInUse == {catalogues[id].shareableLink : id \in DOMAIN catalogues}

\* The links of the catalogues: nanoid(10) never returns a link twice here, so
\* that two catalogues can come to one link only through a request
LinkNext ==
    \/ Register
    \/ \E u \in users :
          \/ \E body \in CataloguePostBodies({}), link \in Links \ LinksInUse :
                PostCatalogue(u, body, link)
          \/ \E catalogueId \in CatalogueIds :
                \/ GetCatalogue(u, catalogueId)
                \/ \E body \in CataloguePutBodies({}) : PutCatalogue(u, catalogueId, body)
                \/ DeleteCatalogue(u, catalogueId)

LinkSpec == Init /\ [][LinkNext]_vars

----------------------------------------------------------------------------
(* Ownership *)

\* C1 as stated: for a session user u and an existing product, catalogue or
\* order whose userId is not u, every by-id route on it answers 403 and
\* leaves the store as it is.
C1_ForeignAlwaysForbidden ==
    [][\A u \in users :
        LET Forbidden == resp'.status = 403 /\ UNCHANGED store IN
        /\ \A productId \in ProductIds :
              productId \in DOMAIN products /\ products[productId].userId # u =>
                 /\ GetProduct(u, productId) => Forbidden
                 /\ \A body \in ProductPutBodies : PutProduct(u, productId, body) => Forbidden
                 /\ DeleteProduct(u, productId) => Forbidden
        /\ \A catalogueId \in CatalogueIds :
              catalogueId \in DOMAIN catalogues /\ catalogues[catalogueId].userId # u =>
                 /\ GetCatalogue(u, catalogueId) => Forbidden
                 /\ \A body \in CataloguePutBodies(OwnershipLists) :
                       PutCatalogue(u, catalogueId, body) => Forbidden
                 /\ DeleteCatalogue(u, catalogueId) => Forbidden
        /\ \A orderId \in OrderIdParams :
              /\ getOrderByOrderId(orderId) # 0
              /\ orders[getOrderByOrderId(orderId)].userId # u
              => /\ GetOrder(u, orderId) => Forbidden
                 /\ \A body \in PaymentStatusBodies :
                       PutOrderStatus(u, orderId, body) => Forbidden]_vars

\* C1, amended: the same, except that PUT /api/orders/:orderId/status looks at
\* the body before it loads the order and answers 400 to a body without a
\* paymentStatus; the store is left as it is in every case.
C1_ForeignForbiddenOr400 ==
    [][\A u \in users :
        LET Forbidden == resp'.status = 403 /\ UNCHANGED store IN
        /\ \A productId \in ProductIds :
              productId \in DOMAIN products /\ products[productId].userId # u =>
                 /\ GetProduct(u, productId) => Forbidden
                 /\ \A body \in ProductPutBodies : PutProduct(u, productId, body) => Forbidden
                 /\ DeleteProduct(u, productId) => Forbidden
        /\ \A catalogueId \in CatalogueIds :
              catalogueId \in DOMAIN catalogues /\ catalogues[catalogueId].userId # u =>
                 /\ GetCatalogue(u, catalogueId) => Forbidden
                 /\ \A body \in CataloguePutBodies(OwnershipLists) :
                       PutCatalogue(u, catalogueId, body) => Forbidden
                 /\ DeleteCatalogue(u, catalogueId) => Forbidden
        /\ \A orderId \in OrderIdParams :
              /\ getOrderByOrderId(orderId) # 0
              /\ orders[getOrderByOrderId(orderId)].userId # u
              => /\ GetOrder(u, orderId) => Forbidden
                 /\ \A body \in PaymentStatusBodies :
                       PutOrderStatus(u, orderId, body) =>
                          /\ UNCHANGED store
                          /\ resp'.status =
                                IF Has(body, "paymentStatus") /\ body.paymentStatus # ""
                                THEN 403 ELSE 400]_vars

\* C1, reached: a session user has been answered 403 on the payment status of
\* an order of another user
C1_Witness ==
    /\ resp.route = "PUT /api/orders/:orderId/status"
    /\ resp.status = 403
    /\ \E id \in DOMAIN orders : orders[id].userId \in users
    /\ Cardinality(users) > 1

----------------------------------------------------------------------------
(* Token-gated routes *)

\* C2: a bearer token whose exp is before the time of the request is rejected
\* by retailer-info, orders, payment-status and view: the answer is an error
\* without data and the store is left as it is.
C2_ExpiredTokenRejected ==
    [][\A link \in Links, header \in Headers(WellFormedTokens) :
        LET Rejected == resp'.status >= 400 /\ resp'.body.kind = "none" /\ UNCHANGED store IN
        /\ header.bearer
        /\ DecodeToken(header.token).ok
        /\ Expired(DecodeToken(header.token).obj)
        => /\ \A body \in EmailBodies : RetailerInfo(link, body, header) => Rejected
           /\ SharedOrders(link, header) => Rejected
           /\ \A orderId \in OrderIdParams, body \in SharedStatusBodies :
                 SharedPaymentStatus(link, orderId, body, header) => Rejected
           /\ View(link, header) => Rejected]_vars

\* C3: a bearer token whose catalogueId is not the id of the catalogue of
\* :link is rejected by retailer-info, orders, payment-status and view: the
\* answer is an error without data and the store is left as it is.
C3_ForeignTokenRejected ==
    [][\A link \in Links, header \in Headers(WellFormedTokens) :
        LET Refused == resp'.body.kind = "none" /\ resp'.status >= 400 /\ UNCHANGED store IN
        /\ header.bearer
        /\ DecodeToken(header.token).ok
        /\ getCatalogueByLink(link) # 0
        /\ Field(DecodeToken(header.token).obj, KeyCatalogueId) # Num(getCatalogueByLink(link))
        => /\ \A body \in EmailBodies : RetailerInfo(link, body, header) => Refused
           /\ SharedOrders(link, header) => Refused
           /\ \A orderId \in OrderIdParams, body \in SharedStatusBodies :
                 SharedPaymentStatus(link, orderId, body, header) => Refused
           /\ View(link, header) => Refused]_vars

----------------------------------------------------------------------------
(* Access requests *)

\* C4 as stated: request-access on a link of no catalogue answers 404 and
\* creates no access request; on the link of a catalogue, with name, email and
\* company given, it creates exactly one request, pending and of that
\* catalogue, and answers 201 with its id.
C4_UnknownLinkIs404 ==
    [][\A link \in Links, body \in RequestAccessBodies :
        RequestAccess(link, body) =>
           LET catalogue == getCatalogueByLink(link) IN
           IF catalogue = 0
           THEN resp'.status = 404 /\ UNCHANGED <<accessRequests, currentAccessRequestId>>
           ELSE {"name", "email", "company"} \subseteq DOMAIN body =>
                   /\ resp'.status = 201
                   /\ resp'.body.id \notin DOMAIN accessRequests
                   /\ DOMAIN accessRequests' = DOMAIN accessRequests \cup {resp'.body.id}
                   /\ \A id \in DOMAIN accessRequests : accessRequests'[id] = accessRequests[id]
                   /\ accessRequests'[resp'.body.id].catalogueId = catalogue
                   /\ accessRequests'[resp'.body.id].status = "pending"]_vars

\* C4, amended: the body is looked at first, so on a link of no catalogue the
\* answer is 404 when name, email and company are given and 400 when one is
\* missing, and no access request is created; the rest as stated.
C4_UnknownLinkIs404Or400 ==
    [][\A link \in Links, body \in RequestAccessBodies :
        RequestAccess(link, body) =>
           LET catalogue == getCatalogueByLink(link)
               complete == {"name", "email", "company"} \subseteq DOMAIN body
           IN
           IF catalogue = 0
           THEN /\ resp'.status = IF complete THEN 404 ELSE 400
                /\ UNCHANGED <<accessRequests, currentAccessRequestId>>
           ELSE complete =>
                   /\ resp'.status = 201
                   /\ resp'.body.id \notin DOMAIN accessRequests
                   /\ DOMAIN accessRequests' = DOMAIN accessRequests \cup {resp'.body.id}
                   /\ \A id \in DOMAIN accessRequests : accessRequests'[id] = accessRequests[id]
                   /\ accessRequests'[resp'.body.id].catalogueId = catalogue
                   /\ accessRequests'[resp'.body.id].status = "pending"]_vars

\* C4, reached: request-access has answered 201 with the id of a second,
\* pending request
C4_Witness ==
    /\ resp.route = "POST /api/shared/:link/request-access"
    /\ resp.status = 201
    /\ resp.body.id = 2
    /\ accessRequests[2].status = "pending"

\* C5: for a catalogue and an email, check-access answers granted:true with
\* a token that decodes to the catalogue's id and the email when a request of
\* the pair stands approved, and granted:false when requests of the pair
\* exist and none is approved.
C5_GrantedWhenApproved ==
    [][\A link \in Links, body \in EmailBodies :
        /\ Has(body, "email")
        /\ getCatalogueByLink(link) # 0
        /\ CheckAccess(link, body)
        => LET catalogue == getCatalogueByLink(link)
               ofPair == {id \in DOMAIN accessRequests :
                            /\ accessRequests[id].catalogueId = catalogue
                            /\ accessRequests[id].email = body.email}
               token == DecodeToken(resp'.body.accessToken)
           IN
           IF \E id \in ofPair : accessRequests[id].status = "approved"
           THEN /\ resp'.status = 200
                /\ resp'.body.granted
                /\ token.ok
                /\ Field(token.obj, KeyCatalogueId) = Num(catalogue)
                /\ Field(token.obj, KeyEmail) = Str(body.email)
           ELSE ofPair # {} => resp'.status = 200 /\ ~resp'.body.granted]_vars

\* C6: approved and rejected are terminal: a request whose status is approved
\* or rejected keeps that status in every step.
C6_DecisionIsFinal ==
    [][\A id \in DOMAIN accessRequests :
        /\ accessRequests[id].status \in {"approved", "rejected"}
        /\ id \in DOMAIN accessRequests'
        => accessRequests'[id].status = accessRequests[id].status]_vars

----------------------------------------------------------------------------
(* Catalogue products *)

\* C7: after an owner's PUT /api/catalogues/:id with productIds P, the ids
\* given as numbers or as strings and each the id of a product of the owner,
\* getCatalogueProducts returns exactly the products of P.
C7_SyncGivesExactlyP ==
    [][\A u \in users, catalogueId \in CatalogueIds, body \in CataloguePutBodies(ProductIdLists) :
        /\ Has(body, "productIds")
        /\ catalogueId \in DOMAIN catalogues
        /\ catalogues[catalogueId].userId = u
        /\ \A i \in 1..Len(body.productIds) :
              /\ parseInt(body.productIds[i]) \in DOMAIN products
              /\ products[parseInt(body.productIds[i])].userId = u
        /\ PutCatalogue(u, catalogueId, body)
        => LET after == getCatalogueProducts(catalogueProducts', catalogueId) IN
           {after[i] : i \in 1..Len(after)}
              = {parseInt(body.productIds[i]) : i \in 1..Len(body.productIds)}]_vars

----------------------------------------------------------------------------
(* The view counter *)

\* C8: a view that succeeds adds exactly 1 to the views of the catalogue it
\* returns, and nothing else changes the views of a catalogue: not another
\* answer of the view route, not another route; a new catalogue starts at 0.
C8_ViewsCountViews ==
    [][/\ \A id \in DOMAIN catalogues \cap DOMAIN catalogues' :
             catalogues'[id].views =
                IF /\ resp'.route = "GET /api/shared/:link/view"
                   /\ resp'.status = 200
                   /\ resp'.body.catalogue.id = id
                THEN catalogues[id].views + 1
                ELSE catalogues[id].views
       /\ \A id \in DOMAIN catalogues' \ DOMAIN catalogues : catalogues'[id].views = 0]_vars

\* C8, reached: the second of two views of a catalogue has answered, and the
\* catalogue's views are 2
C8_Witness ==
    /\ resp.route = "GET /api/shared/:link/view"
    /\ resp.status = 200
    /\ resp.body.catalogue.views = 2
    /\ catalogues[resp.body.catalogue.id].views = 2

\* C10: view returns the catalogue only if, at the time of the call, a
\* request of the token's catalogueId and email stands approved.
C10_ViewOnlyWhenApproved ==
    [][\A link \in Links, header \in Headers(WellFormedTokens) :
        View(link, header) /\ resp'.status = 200 =>
           \E id \in DOMAIN accessRequests :
              /\ accessRequests[id].status = "approved"
              /\ Num(accessRequests[id].catalogueId)
                    = Field(DecodeToken(header.token).obj, KeyCatalogueId)
              /\ Str(accessRequests[id].email)
                    = Field(DecodeToken(header.token).obj, KeyEmail)]_vars

----------------------------------------------------------------------------
(* Orders *)

\* C9: an order that POST /api/orders creates has an orderId of ORD- and six
\* characters of A-Z and 0-9, whatever the body and the draw of the generator,
\* and paymentStatus "pending" when the body gives none.
C9_OrderIdForm ==
    [][\A body \in OrderPostBodies, draw \in NanoidDraws :
        PostOrder(body, draw) /\ resp'.status = 201 =>
           LET order == orders'[currentOrderId] IN
           /\ Len(order.orderId) = Len(OrdPrefix) + 6
           /\ SubSeq(order.orderId, 1, Len(OrdPrefix)) = OrdPrefix
           /\ \A i \in Len(OrdPrefix) + 1 .. Len(order.orderId) :
                 IsUpper(order.orderId[i]) \/ IsDigit(order.orderId[i])
           /\ ~Has(body, "paymentStatus") => order.paymentStatus = "pending"]_vars

----------------------------------------------------------------------------
(* The retailer's orders *)

\* C11: with a bearer token that JSON.parse accepts, payment-status answers
\* 404 when no order has the orderId and 403 when the order's retailerEmail
\* is not the email of the token, and changes no order in both cases: an
\* order's paymentStatus changes only when the two are equal.
C11_OnlyTheRetailerPays ==
    [][\A link \in Links, orderId \in OrderIdParams, body \in SharedStatusBodies,
          header \in Headers(SharedTokens) :
        /\ header.bearer
        /\ DecodeToken(header.token).ok
        /\ SharedPaymentStatus(link, orderId, body, header)
        => LET order == getOrderByOrderId(orderId)
               email == Field(DecodeToken(header.token).obj, KeyEmail)
           IN  IF order = 0 THEN resp'.status = 404 /\ UNCHANGED orders
               ELSE Str(orders[order].retailerEmail) # email =>
                       resp'.status = 403 /\ UNCHANGED orders]_vars

----------------------------------------------------------------------------
(* The lifetime of a token *)

\* C12: the token check-access mints at time t decodes to exp = t + 7 days
\* and to the catalogue of the link; view on a link of that catalogue, with a
\* minted token, answers 200 at every time up to exp, exp included, and 401
\* "Token expired" at every time after exp.
C12_MintedTokenLivesAWeek ==
    [][/\ \A link \in Links, body \in EmailBodies :
             CheckAccess(link, body) /\ resp'.status = 200 /\ resp'.body.granted =>
                LET token == DecodeToken(resp'.body.accessToken) IN
                /\ token.ok
                /\ Field(token.obj, KeyExp) = Num(now + Week)
                /\ Field(token.obj, KeyCatalogueId) = Num(getCatalogueByLink(link))
       /\ \A link \in Links, header \in Headers({}) :
             /\ header.bearer
             /\ getCatalogueByLink(link) # 0
             /\ Field(DecodeToken(header.token).obj, KeyCatalogueId)
                   = Num(getCatalogueByLink(link))
             /\ View(link, header)
             => IF now <= Field(DecodeToken(header.token).obj, KeyExp).n
                THEN resp'.status = 200
                ELSE resp'.status = 401 /\ resp'.body = Message("Token expired")]_vars

\* C12, reached: view has answered 200 to the minted token at the very time
\* of its exp
C12_Witness ==
    /\ resp.route = "GET /api/shared/:link/view"
    /\ resp.status = 200
    /\ \E token \in issued : Field(DecodeToken(token).obj, KeyExp) = Num(now)

----------------------------------------------------------------------------
(* The links of the catalogues *)

\* C13: no two catalogues have the same shareableLink, whatever POST
\* /api/catalogues and PUT /api/catalogues/:id requests were served.
C13_LinksAreUnique ==
    \A a \in DOMAIN catalogues, b \in DOMAIN catalogues :
        a # b => catalogues[a].shareableLink # catalogues[b].shareableLink

----------------------------------------------------------------------------
(* Token errors *)

\* C14: retailer-info and view answer 401 to every token error: a token that
\* does not decode, a token without catalogueId or exp, an expired token, a
\* token whose catalogueId is not the id of the catalogue of :link.
C14_TokenErrorsAre401 ==
    [][\A link \in Links, header \in Headers(SharedTokens) :
        LET decoded == DecodeToken(header.token)
            catalogue == getCatalogueByLink(link)
        IN
        /\ header.bearer
        /\ \/ ~decoded.ok
           \/ decoded.isNull
           \/ ~Truthy(Field(decoded.obj, KeyCatalogueId))
           \/ ~Truthy(Field(decoded.obj, KeyExp))
           \/ Expired(decoded.obj)
           \/ catalogue # 0 /\ Field(decoded.obj, KeyCatalogueId) # Num(catalogue)
        => /\ \A body \in EmailBodies :
                 RetailerInfo(link, body, header) => resp'.status = 401
           /\ View(link, header) => resp'.status = 401]_vars

----------------------------------------------------------------------------
(* Sessions *)

\* C15: a request without a session to a route of the distributor is answered
\* 401 and leaves the store as it is, for every id and body, whether the
\* product, catalogue, access request or order it names exists or not.
C15_NoSessionIs401 ==
    [][LET Refused == resp'.status = 401 /\ UNCHANGED store IN
       /\ GetProducts(NoUser) => Refused
       /\ \A body \in ProductPostBodies : PostProduct(NoUser, body) => Refused
       /\ \A productId \in ProductIds :
             /\ GetProduct(NoUser, productId) => Refused
             /\ \A body \in ProductPutBodies : PutProduct(NoUser, productId, body) => Refused
             /\ DeleteProduct(NoUser, productId) => Refused
       /\ GetCatalogues(NoUser) => Refused
       /\ \A body \in CataloguePostBodies({}), link \in Links :
             PostCatalogue(NoUser, body, link) => Refused
       /\ \A catalogueId \in CatalogueIds :
             /\ GetCatalogue(NoUser, catalogueId) => Refused
             /\ \A body \in CataloguePutBodies({}) :
                   PutCatalogue(NoUser, catalogueId, body) => Refused
             /\ DeleteCatalogue(NoUser, catalogueId) => Refused
             /\ GetAccessRequests(NoUser, catalogueId) => Refused
       /\ \A requestId \in RequestIds, body \in AccessStatusBodies :
             PutAccessRequest(NoUser, requestId, body) => Refused
       /\ GetOrders(NoUser) => Refused
       /\ \A orderId \in OrderIdParams :
             /\ GetOrder(NoUser, orderId) => Refused
             /\ \A body \in PaymentStatusBodies :
                   PutOrderStatus(NoUser, orderId, body) => Refused
       /\ DashboardStats(NoUser) => Refused
       /\ DashboardRecentOrders(NoUser) => Refused]_vars

\* C15, reached: a request without a session to delete a catalogue has been
\* answered 401 while every catalogue it can name exists
C15_Witness ==
    /\ resp.route = "DELETE /api/catalogues/:id"
    /\ resp.status = 401
    /\ DOMAIN catalogues = CatalogueIds

----------------------------------------------------------------------------
(* The rows between catalogues and products *)

\* C16: every CatalogueProduct row references a catalogue and a product that
\* both exist, whatever requests on products and catalogues were served.
C16_RowsReferenceExisting ==
    \A id \in DOMAIN catalogueProducts :
        /\ catalogueProducts[id].catalogueId \in DOMAIN catalogues
        /\ catalogueProducts[id].productId \in DOMAIN products

----------------------------------------------------------------------------
(* The owner of an order *)

\* C17: the userId of every stored order is the id of an existing user.
C17_OrdersHaveAnOwner ==
    \A id \in DOMAIN orders : orders[id].userId \in users

----------------------------------------------------------------------------
(* A storage call that fails in a loop *)

\* what the request leaves when the failure of the add for element failAt of
\* productIds is ignored: the answer is ok, and every other listed product of
\* the requester is among the products of the catalogue
FailureIgnored(productIds, failAt, u, catalogueId, ok) ==
    /\ resp'.status = ok
    /\ \A i \in (1..Len(productIds)) \ {failAt} :
          /\ parseInt(productIds[i]) \in DOMAIN products
          /\ products[parseInt(productIds[i])].userId = u
          => Includes(getCatalogueProducts(catalogueProducts', catalogueId),
                      parseInt(productIds[i]))

\* C18: when one call of addProductToCatalogue throws in the attach loop of
\* POST /api/catalogues or in the sync loop of PUT /api/catalogues/:id, the
\* request still answers with success, the products attached before stay and
\* the products after it are still attached.
C18_FailureIsIgnored ==
    [][\A u \in users, l \in FailureLists, failAt \in 1..MaxListLen :
        /\ \A link \in Links :
              PostCatalogueFailing(u, [name |-> "spring", productIds |-> l], link, failAt)
              => FailureIgnored(l, failAt, u, currentCatalogueId, 201)
        /\ \A catalogueId \in CatalogueIds :
              PutCatalogueFailing(u, catalogueId, [productIds |-> l], failAt)
              => FailureIgnored(l, failAt, u, catalogueId, 200)]_vars

----------------------------------------------------------------------------
(* Two syncs of one catalogue *)

\* the ids a productIds list names
ListedProducts(productIds) == {parseInt(productIds[i]) : i \in 1..Len(productIds)}

\* C19: when two PUT /api/catalogues/:id requests of the owner, with lists P1
\* and P2 of products of the owner, have both answered 200, the catalogue
\* holds exactly the products of P1 or exactly those of P2, none twice.
C19_LastWriterWins ==
    \A a \in DOMAIN inflight, b \in DOMAIN inflight :
        /\ a # b
        /\ inflight[a].pc = "done" /\ inflight[a].status = 200
        /\ inflight[b].pc = "done" /\ inflight[b].status = 200
        /\ inflight[a].catalogueId = inflight[b].catalogueId
        /\ \A p \in ListedProducts(inflight[a].productIds)
                        \cup ListedProducts(inflight[b].productIds) :
              p \in DOMAIN products /\ products[p].userId = inflight[a].u
        => LET after == getCatalogueProducts(catalogueProducts, inflight[a].catalogueId) IN
           /\ \A x \in 1..Len(after), y \in 1..Len(after) : x # y => after[x] # after[y]
           /\ \/ {after[x] : x \in 1..Len(after)} = ListedProducts(inflight[a].productIds)
              \/ {after[x] : x \in 1..Len(after)} = ListedProducts(inflight[b].productIds)

----------------------------------------------------------------------------
(* The two storages side by side *)

\* how often v is in list
Count(list, v) == Cardinality({i \in 1..Len(list) : list[i] = v})

\* C20: on every sequence of addProductToCatalogue, removeProductFromCatalogue
\* and getCatalogueProducts calls MemStorage and DatabaseStorage return the
\* same booleans and the same collection of products, and once
\* removeProductFromCatalogue(c, p) has returned true, getCatalogueProducts(c)
\* contains p in neither.
C20_StoragesInterchangeable ==
    /\ resp.route = "removeProductFromCatalogue" =>
          /\ resp.body.mem = resp.body.db
          /\ resp.body.mem =>
                /\ ~Includes(getCatalogueProducts(catalogueProducts, resp.body.catalogueId),
                             resp.body.productId)
                /\ ~Includes(DatabaseStorage_getCatalogueProducts(
                                 dbCatalogueProducts.rows, resp.body.catalogueId),
                             resp.body.productId)
    /\ resp.route = "getCatalogueProducts" =>
          \A p \in ProductIds : Count(resp.body.mem, p) = Count(resp.body.db, p)

----------------------------------------------------------------------------
(* Dashboard *)

\* the sum of the values of f
RECURSIVE SumOf(_)
SumOf(f) ==
    IF DOMAIN f = {} THEN 0
    ELSE LET x == CHOOSE x \in DOMAIN f : TRUE IN
         f[x] + SumOf([y \in DOMAIN f \ {x} |-> f[y]])

\* the amount of an order of the dashboard runs, in hundredths
AmountOf(order) ==
    IF order.amount = Str(TenFifty) THEN 1050
    ELSE IF order.amount = Str(FiveHundredths) THEN 5
    ELSE 300

\* C21: GET /api/dashboard/stats for user u answers with totalProducts the
\* number of u's products, catalogueViews the sum of the views of u's
\* catalogues, pendingPayments the sum of the amounts of u's pending orders,
\* and newOrders the number of u's orders of the last 30 days; what belongs to
\* other users is not counted.
C21_StatsAreTheUsers ==
    [][\A u \in users :
          DashboardStats(u) =>
             /\ resp'.status = 200
             /\ resp'.body.totalProducts =
                   Cardinality({id \in DOMAIN products : products[id].userId = u})
             /\ resp'.body.catalogueViews =
                   SumOf([id \in {c \in DOMAIN catalogues : catalogues[c].userId = u} |->
                             catalogues[id].views])
             /\ parseFloat(resp'.body.pendingPayments) =
                   Hundredths(SumOf([id \in {o \in DOMAIN orders :
                                                 /\ orders[o].userId = u
                                                 /\ orders[o].paymentStatus = "pending"} |->
                                        AmountOf(orders[id])]))
             /\ resp'.body.newOrders =
                   Cardinality({id \in DOMAIN orders :
                                   /\ orders[id].userId = u
                                   /\ now - orders[id].orderDate <= ThirtyDays})]_vars

\* C21, reached: the stats of a user with two pending orders of 10.50 and
\* 0.05, one of them older than 30 days: pendingPayments "10.55", newOrders 1
C21_Witness ==
    /\ resp.route = "GET /api/dashboard/stats" /\ resp.status = 200
    /\ resp.body.pendingPayments = <<49, 48, 46, 53, 53>>
    /\ resp.body.newOrders = 1
    /\ \E a \in DOMAIN orders, b \in DOMAIN orders :
          /\ orders[a].userId = orders[b].userId
          /\ orders[a].amount = Str(TenFifty) /\ orders[b].amount = Str(FiveHundredths)
          /\ now - orders[a].orderDate > ThirtyDays \/ now - orders[b].orderDate > ThirtyDays

----------------------------------------------------------------------------
(* The status of an access request *)

\* C22: the status of an access request is pending, approved or rejected, and
\* it changes only by a PUT /api/access-requests/:id of the owner of the
\* request's catalogue with status approved or rejected; a PUT with another
\* status is answered 400, one for an unknown id 404, one of a user who does
\* not own the catalogue 403, and these change no access request.
C22_StatusChangesByOwnerOnly ==
    [][/\ \A id \in DOMAIN accessRequests' :
             accessRequests'[id].status \in {"pending", "approved", "rejected"}
       /\ \A id \in DOMAIN accessRequests :
             /\ id \in DOMAIN accessRequests'
             /\ accessRequests'[id].status # accessRequests[id].status
                => /\ accessRequests'[id].status \in {"approved", "rejected"}
                   /\ accessRequests[id].catalogueId \in DOMAIN catalogues
                   /\ \E u \in users :
                         /\ catalogues[accessRequests[id].catalogueId].userId = u
                         /\ PutAccessRequest(u, id, [status |-> accessRequests'[id].status])
       /\ \A u \in users, requestId \in RequestIds, body \in AccessStatusBodies :
             PutAccessRequest(u, requestId, body) =>
                LET valid == Has(body, "status") /\ body.status \in {"approved", "rejected"}
                    known == requestId \in DOMAIN accessRequests
                IN
                /\ ~valid => resp'.status = 400
                /\ valid /\ ~known => resp'.status = 404
                /\ /\ valid /\ known
                   /\ accessRequests[requestId].catalogueId \in DOMAIN catalogues
                   /\ catalogues[accessRequests[requestId].catalogueId].userId # u
                   => resp'.status = 403
                /\ resp'.status \in {400, 403, 404} => UNCHANGED accessRequests]_vars

\* C22, reached: a user who does not own the catalogue has asked to approve a
\* pending request and was answered 403
C22_Witness ==
    /\ resp.route = "PUT /api/access-requests/:id" /\ resp.status = 403
    /\ \E id \in DOMAIN accessRequests :
          /\ accessRequests[id].status = "pending"
          /\ accessRequests[id].catalogueId \in DOMAIN catalogues
    /\ Cardinality(users) = 2

----------------------------------------------------------------------------
(* Owners *)

\* C23: no request changes the userId of a product or of a catalogue that
\* exists: PUT /api/products/:id and PUT /api/catalogues/:id leave userId as
\* it is, whatever the body carries.
C23_OwnerNeverChanges ==
    [][/\ \A id \in DOMAIN products \cap DOMAIN products' :
             products'[id].userId = products[id].userId
       /\ \A id \in DOMAIN catalogues \cap DOMAIN catalogues' :
             catalogues'[id].userId = catalogues[id].userId]_vars

----------------------------------------------------------------------------
(* Views side by side *)

\* the requests that have viewed catalogue id and were answered 200
Viewed(id) ==
    {r \in DOMAIN inflight :
        /\ inflight[r].pc = "done" /\ inflight[r].status = 200
        /\ inflight[r].catalogue.id = id}

\* C24: when the GET /api/shared/:link/view requests for a catalogue have all
\* been answered, its views are as many higher than at the start, which is
\* 0, as there were requests answered 200: no increment is lost.
C24_NoViewIsLost ==
    \A id \in DOMAIN catalogues :
        (\A r \in DOMAIN inflight : inflight[r].pc = "done")
        => catalogues[id].views = Cardinality(Viewed(id))

----------------------------------------------------------------------------
(* Attached products *)

\* C25: every product attached to a catalogue has the userId of the
\* catalogue, in every reachable state.
C25_AttachedProductsAreTheOwners ==
    \A id \in DOMAIN catalogueProducts :
        /\ catalogueProducts[id].catalogueId \in DOMAIN catalogues
        /\ catalogueProducts[id].productId \in DOMAIN products
        => products[catalogueProducts[id].productId].userId
              = catalogues[catalogueProducts[id].catalogueId].userId

====
